---- MODULE Spec2Model ----
(***************************************************************************)
(* State-machine model of the PyPSA results dashboard's time-series core: *)
(* the network accessor (components/utils.py), the plots pipeline          *)
(* (components/plots_metrics_tab.py), the comparison pipeline              *)
(* (components/comparison_tab.py), the overview carrier chart              *)
(* (components/overview_tab.py) and the st.cache_data memoisation of the   *)
(* cached functions.                                                       *)
(*                                                                         *)
(* Numbers are integers.  One unit of a time-series value stands for 1e-6 *)
(* of the network's unit, so that the carrier filter's epsilon 1e-6 is the *)
(* integer 1.  One unit of a timestamp is half an hour.                    *)
(***************************************************************************)
EXTENDS Integers, Sequences, FiniteSets, TLC

VARIABLES
    networks,   \* name -> loaded pypsa.Network (session state; read-only)
    cache,      \* st.cache_data: cached function name -> (key -> stored return value)
    call,       \* the call being served: [fn, ...arguments]
    ret,        \* what that call returned
    session,    \* st.session_state and the upload widgets of the user's session
    files       \* the temporary files on the server's disk

vars == <<networks, cache, call, ret, session, files>>

(***************************************************************************)
(* Bounds of the model.                                                    *)
(***************************************************************************)
MaxSnapshots == 3      \* snapshots (rows) of a time-series matrix
MaxSeriesLen == 11     \* length of a series handed to is_likely_cumulative
MaxPlotSnapshots == 2  \* snapshots of the networks the pipelines run on
MaxCombineSnapshots == 2  \* snapshots of each network of the combining specification
MaxUploads == 3  \* uploads of a session
MaxTempFiles == 2  \* temporary files left on the disk

(***************************************************************************)
(* Generic helpers.                                                        *)
(***************************************************************************)
Range(s) == {s[i] : i \in DOMAIN s}

Abs(x) == IF x < 0 THEN -x ELSE x

Max0(x) == IF x < 0 THEN 0 ELSE x

RECURSIVE SeqSum(_)
SeqSum(s) == IF Len(s) = 0 THEN 0 ELSE Head(s) + SeqSum(Tail(s))

\* The positions of s whose element satisfies membership in S, in order.
RECURSIVE SelectIn(_, _)
SelectIn(s, S) ==
    IF Len(s) = 0 THEN <<>>
    ELSE IF Head(s) \in S THEN <<Head(s)>> \o SelectIn(Tail(s), S)
         ELSE SelectIn(Tail(s), S)

\* Position of the first occurrence of x in s (x is in s).
PosOf(s, x) == CHOOSE i \in DOMAIN s : s[i] = x /\ \A j \in 1..(i - 1) : s[j] # x

\* Injective sequences over S of length at most n.
InjSeqs(S, n) ==
    UNION {{s \in [1..k -> S] : \A i, j \in 1..k : i # j => s[i] # s[j]} : k \in 0..n}

\* The members of a finite set of integers or strings in ascending order.
RECURSIVE SortedSeq(_)
SortedSeq(S) ==
    IF S = {} THEN <<>>
    ELSE LET m == CHOOSE x \in S : \A y \in S : x <= y
         IN <<m>> \o SortedSeq(S \ {m})

IsStrictlyIncreasing(s) == \A i \in 1..(Len(s) - 1) : s[i] < s[i + 1]

(***************************************************************************)
(* pandas DataFrames.  A frame is [dt, index, columns, data]: dt says      *)
(* whether the index is a DatetimeIndex; a time-indexed matrix keeps its   *)
(* cells row by row (data[r][c]); a static table keeps, per attribute      *)
(* column, the value of every component (data[attr][id]).                  *)
(***************************************************************************)
EmptyFrame == [dt |-> FALSE, index |-> <<>>, columns |-> <<>>, data |-> <<>>]

empty(df) == Len(df.index) = 0 \/ Len(df.columns) = 0

isDataFrame(obj) == "index" \in DOMAIN obj

\* An attribute value that is no DataFrame and that pd.DataFrame() cannot convert.
Junk == [junk |-> TRUE]

TsFrame(dt, index, columns, data) ==
    [dt |-> dt, index |-> index, columns |-> columns, data |-> data]

StaticFrame(index, columns, col) ==
    [dt |-> FALSE, index |-> index, columns |-> columns, data |-> col]

\* df[cols]: the columns named in cols, in that order.
SelectColumns(df, cols) ==
    [df EXCEPT !.columns = cols,
               !.data = [r \in DOMAIN df.data |->
                            [c \in DOMAIN cols |-> df.data[r][PosOf(df.columns, cols[c])]]]]

\* The column named c of a time-indexed matrix, as a sequence over the rows.
Column(df, c) == [r \in DOMAIN df.data |-> df.data[r][PosOf(df.columns, c)]]

(***************************************************************************)
(* get_pypsa_component_dfs (components/utils.py).                          *)
(***************************************************************************)
component_to_attribute_map ==
    [Generator |-> "generators", Load |-> "loads", Line |-> "lines",
     Bus |-> "buses", StorageUnit |-> "storage_units"]

\* Python's None as the value of target_attribute.
NoAttribute == "None"

\* pd.DataFrame(obj) inside try/except: the frame itself, or the empty frame
\* when the conversion raises.
DataFrameOrEmpty(obj) == IF isDataFrame(obj) THEN obj ELSE EmptyFrame

\* Lines 70-98: the frame picked from the network object.
pick_df(pypsa_obj, time_series, target_attribute) ==
    IF time_series
    THEN IF target_attribute # NoAttribute
         THEN IF target_attribute \in DOMAIN pypsa_obj
              THEN DataFrameOrEmpty(pypsa_obj[target_attribute])
              ELSE EmptyFrame
         ELSE IF "p" \in DOMAIN pypsa_obj /\ isDataFrame(pypsa_obj["p"])
              THEN pypsa_obj["p"]
              ELSE IF "df" \in DOMAIN pypsa_obj /\ isDataFrame(pypsa_obj["df"])
                   THEN pypsa_obj["df"]
                   ELSE DataFrameOrEmpty(pypsa_obj)
    ELSE DataFrameOrEmpty(pypsa_obj)

\* Lines 100-108: the validation of a time-series result.
validate_df(time_series, df) ==
    IF time_series /\ ~empty(df)
    THEN IF ~df.dt THEN EmptyFrame
         ELSE IF Len(df.columns) = 0 /\ Len(df.index) = 0 THEN EmptyFrame
         ELSE df
    ELSE IF time_series /\ empty(df) THEN EmptyFrame
    ELSE df

\* A plausible slip: component_to_attribute_map[component_type] instead of .get(),
\* which raises KeyError for an unknown kind.
get_pypsa_component_dfs_outcome_subscript(network, component_type, time_series, target_attribute) ==
    IF component_type \notin DOMAIN component_to_attribute_map
    THEN [raised |-> TRUE, df |-> EmptyFrame]
    ELSE LET base_attr == component_to_attribute_map[component_type]
             pypsa_attr_name == IF time_series THEN base_attr \o "_t" ELSE base_attr
         IN  IF pypsa_attr_name \notin DOMAIN network
             THEN [raised |-> FALSE, df |-> EmptyFrame]
             ELSE [raised |-> FALSE,
                   df |-> validate_df(time_series,
                              pick_df(network[pypsa_attr_name], time_series, target_attribute))]

\* The call's outcome: whether it raised, and the frame it returned.
get_pypsa_component_dfs_outcome(network, component_type, time_series, target_attribute) ==
    IF component_type \notin DOMAIN component_to_attribute_map
    THEN [raised |-> FALSE, df |-> EmptyFrame]
    ELSE LET base_attr == component_to_attribute_map[component_type]
             pypsa_attr_name == IF time_series THEN base_attr \o "_t" ELSE base_attr
         IN  IF pypsa_attr_name \notin DOMAIN network
             THEN [raised |-> FALSE, df |-> EmptyFrame]
             ELSE [raised |-> FALSE,
                   df |-> validate_df(time_series,
                              pick_df(network[pypsa_attr_name], time_series, target_attribute))]

get_pypsa_component_dfs(network, component_type, time_series, target_attribute) ==
    get_pypsa_component_dfs_outcome(network, component_type, time_series, target_attribute).df

(***************************************************************************)
(* Networks.  A pypsa.Network is a record of its attributes: the static    *)
(* tables, the "<kind>_t" dictionaries of time-indexed matrices (variable  *)
(* name -> frame), the snapshots and the objective.  An attribute the      *)
(* object lacks is a field the record lacks (getattr(..., None)).          *)
(***************************************************************************)
StaticColumns ==
    [buses |-> <<"carrier">>,
     generators |-> <<"carrier", "marginal_cost", "p_nom">>,
     loads |-> <<"bus">>,
     lines |-> <<"bus0">>,
     storage_units |-> <<"carrier", "p_nom">>]

TsVariables ==
    [buses_t |-> {"p", "q", "marginal_price"},
     generators_t |-> {"p", "q"},
     loads_t |-> {"p", "q"},
     lines_t |-> {"p0", "p1"},
     storage_units_t |-> {"p", "q", "state_of_charge"}]

\* A static table with the given columns and no component.
NoComponents(columns) == StaticFrame(<<>>, columns, [a \in Range(columns) |-> <<>>])

\* A matrix over the snapshots with no column: a variable no component reports.
NoColumns(snapshots) == TsFrame(TRUE, snapshots, <<>>, [r \in DOMAIN snapshots |-> <<>>])

\* A freshly built network with the given snapshots and no component.
BaseNetwork(snapshots) ==
    [a \in DOMAIN StaticColumns |-> NoComponents(StaticColumns[a])]
    @@ [t \in DOMAIN TsVariables |-> [v \in TsVariables[t] |-> NoColumns(snapshots)]]
    @@ [snapshots |-> snapshots, objective |-> [type |-> "number", v |-> 0]]

\* The network without the attributes named in gone.
WithoutAttributes(network, gone) == [a \in (DOMAIN network) \ gone |-> network[a]]

\* The generator table of the given components: carrier, marginal cost, p_nom.
GeneratorTable(ids, carrier, marginal_cost, p_nom) ==
    StaticFrame(ids, StaticColumns["generators"],
                [carrier |-> [g \in Range(ids) |-> carrier[g]],
                 marginal_cost |-> [g \in Range(ids) |-> marginal_cost[g]],
                 p_nom |-> [g \in Range(ids) |-> p_nom[g]]])

CarrierOf == [g1 |-> "gas", g2 |-> "wind", g3 |-> "gas"]
MarginalCostOf == [g1 |-> 3, g2 |-> 0, g3 |-> 2]
PNomOf == [g1 |-> 100, g2 |-> 50, g3 |-> 10]

\* A matrix all of whose cells hold v.
ConstantMatrix(dt, index, columns, v) ==
    TsFrame(dt, index, columns, [r \in DOMAIN index |-> [c \in DOMAIN columns |-> v]])

(***************************************************************************)
(* The networks of the accessor specification: the generator kind varies   *)
(* over missing attributes, component sets, index types, index orders and  *)
(* column sets; the other kinds have no component, and there is no         *)
(* state_of_charge for generators.                                         *)
(***************************************************************************)
QueryStaticIds == {<<>>, <<"g1">>, <<"g1", "g2">>}
QueryColumns == {<<>>, <<"g1">>, <<"g1", "g2">>, <<"g1", "g3">>}
QueryIndexes == InjSeqs(1..MaxSnapshots, MaxSnapshots)

QueryMatrices ==
    {ConstantMatrix(d, i, c, 1) : d \in BOOLEAN, i \in QueryIndexes, c \in QueryColumns}
    \cup {Junk}

QueryNetwork(ids, p, gone) ==
    WithoutAttributes(
        [BaseNetwork(IF isDataFrame(p) THEN p.index ELSE <<>>) EXCEPT
            !["generators"] = GeneratorTable(ids, CarrierOf, MarginalCostOf, PNomOf),
            !["generators_t"] = [@ EXCEPT !["p"] = p]],
        gone)

QueryNets ==
    {QueryNetwork(ids, p, gone) :
        ids \in QueryStaticIds, p \in QueryMatrices,
        gone \in {{}, {"generators_t"}, {"generators", "generators_t"}}}

ComponentKinds == {"Generator", "Load", "Line", "Bus", "StorageUnit", "Transformer"}
TargetAttributes == {"p", "q", "state_of_charge", NoAttribute}

NoCall == [fn |-> "none"]

\* Python's None where a network object is expected, and the truth value of
\* `if network:`.
NoneObject == [none |-> TRUE]
is_none(obj) == "none" \in DOMAIN obj

\* app.py:23-28: the session state of a new session; nothing is in the upload widgets
\* (main_uploader: the file of the main widget; comparison_uploader: the files of the
\* comparison widget, in order; uploads: the uploads so far).
NoSession ==
    [main_network |-> NoneObject, file_error |-> FALSE, main_network_error |-> FALSE,
     main_uploader |-> NoneObject, comparison_uploader |-> <<>>, uploads |-> 0]

\* st.cache_data keeps, for each decorated function, the values stored under the
\* keys of earlier calls: a set of [key, value] entries, empty when the server starts.
NoCache ==
    [process_and_plot_data |-> {},
     discover_timeseries_components |-> {},
     _get_available_ts_variables_for_network |-> {},
     _calculate_carrier_marginal_costs |-> {}]

\* A call with the given key finds a stored value.
cache_hit(fn, key) == \E entry \in cache[fn] : entry.key = key

\* The value stored under the key.
cached_value(fn, key) == (CHOOSE entry \in cache[fn] : entry.key = key).value

\* The cache after a call with the given key has returned value.
cache_after(fn, key, value) ==
    IF cache_hit(fn, key)
    THEN cache
    ELSE [cache EXCEPT ![fn] = @ \cup {[key |-> key, value |-> value]}]

\* What a call of a decorated function returns: the stored value when there is one,
\* otherwise the value computed by the function's body.
cache_data(fn, key, computed) ==
    IF cache_hit(fn, key) THEN cached_value(fn, key) ELSE computed

\* Between two script runs: no call is being served.  One user interaction triggers
\* one synchronous run (app.py runs top to bottom on every interaction).
Idle == call = NoCall

\* The script run ends: its locals are dropped; the session's networks and the
\* cache stay.
EndRun ==
    /\ ~Idle
    /\ call' = NoCall
    /\ ret' = NoCall
    /\ UNCHANGED <<networks, cache, session, files>>

\* The server process ends and starts again: st.cache_data is held in memory, so the
\* new process starts with nothing stored.
Restart ==
    /\ ~Idle
    /\ call' = NoCall
    /\ ret' = NoCall
    /\ cache' = NoCache
    /\ UNCHANGED <<networks, session, files>>

\* A call of get_pypsa_component_dfs on a loaded network.
Query(n, component_type, time_series, target_attribute) ==
    /\ Idle
    /\ call' = [fn |-> "get_pypsa_component_dfs", net |-> n,
                component_type |-> component_type, time_series |-> time_series,
                target_attribute |-> target_attribute]
    /\ ret' = get_pypsa_component_dfs_outcome(networks[n], component_type,
                                              time_series, target_attribute)
    /\ UNCHANGED <<networks, cache, session, files>>

InitQuery ==
    /\ networks \in {[N |-> net] : net \in QueryNets}
    /\ cache = NoCache
    /\ call = NoCall
    /\ ret = NoCall
    /\ session = NoSession
    /\ files = {}

NextQuery ==
    \/ \E n \in DOMAIN networks, k \in ComponentKinds, ts \in BOOLEAN, a \in TargetAttributes :
        Query(n, k, ts, a)
    \/ EndRun

SpecQuery == InitQuery /\ [][NextQuery]_vars

IsQuery == call.fn = "get_pypsa_component_dfs"

\* The attribute of the network a query reads.
QueryAttribute ==
    IF call.time_series THEN component_to_attribute_map[call.component_type] \o "_t"
    ELSE component_to_attribute_map[call.component_type]

KindUnknown == call.component_type \notin DOMAIN component_to_attribute_map

KindAbsent == ~KindUnknown /\ QueryAttribute \notin DOMAIN networks[call.net]

\* A time-series query for a variable the kind's dictionary does not hold, or holds
\* with no column or no row.
VariableLacking ==
    /\ ~KindUnknown /\ ~KindAbsent
    /\ call.time_series /\ call.target_attribute # NoAttribute
    /\ LET obj == networks[call.net][QueryAttribute]
       IN  \/ call.target_attribute \notin DOMAIN obj
           \/ /\ isDataFrame(obj[call.target_attribute])
              /\ empty(obj[call.target_attribute])

\* C2: a query for an unknown kind, for a kind the network has no attribute for, or
\* for a variable the network lacks returns the empty table and does not raise.
C2_AbsentIsEmpty ==
    (IsQuery /\ (KindUnknown \/ KindAbsent \/ VariableLacking))
        => (~ret.raised /\ empty(ret.df))

C2_Witness ==
    /\ IsQuery /\ call.time_series
    /\ call.component_type = "Generator" /\ call.target_attribute = "state_of_charge"
    /\ "generators_t" \in DOMAIN networks[call.net]
    /\ ~ret.raised /\ empty(ret.df)

\* The matrix a time-series query with a variable name reads, when there is one.
QueriedMatrixExists ==
    /\ IsQuery /\ ~KindUnknown /\ ~KindAbsent
    /\ call.time_series /\ call.target_attribute # NoAttribute
    /\ call.target_attribute \in DOMAIN networks[call.net][QueryAttribute]
    /\ isDataFrame(networks[call.net][QueryAttribute][call.target_attribute])

\* C3 (as claimed): every column of the matrix a time-series query returns is in the
\* index of the kind's static table.
C3_ColumnsInStaticIndex ==
    (/\ QueriedMatrixExists
     /\ component_to_attribute_map[call.component_type] \in DOMAIN networks[call.net])
        => Range(ret.df.columns)
              \subseteq Range(networks[call.net][component_to_attribute_map[call.component_type]].index)

\* C4 (as claimed): a non-empty matrix returned by a time-series query has a
\* strictly increasing timestamp index and at least one column.
C4_TimeOrderedOrEmpty ==
    (IsQuery /\ call.time_series /\ ~empty(ret.df))
        => (ret.df.dt /\ IsStrictlyIncreasing(ret.df.index) /\ Len(ret.df.columns) >= 1)

(***************************************************************************)
(* is_likely_cumulative (components/comparison_tab.py).  The two ratio     *)
(* tests k / n > 0.1 and k / n > 0.9 on counts k <= n are decided as       *)
(* 10 k > n and 10 k > 9 n: the float quotient of two small integers lies  *)
(* above the float literal exactly when the rational does.                 *)
(***************************************************************************)
CountNegative(s) == Cardinality({i \in DOMAIN s : s[i] < 0})

\* series.diff().dropna(): the successive first differences.
FirstDifferences(s) == [i \in 1..(Len(s) - 1) |-> s[i + 1] - s[i]]

CountNonNegative(s) == Cardinality({i \in DOMAIN s : s[i] >= 0})

\* A plausible slip: >= 0.9 for > 0.9 in the last test.
is_likely_cumulative_at_least_90(series) ==
    IF Len(series) = 0 THEN FALSE
    ELSE IF 10 * CountNegative(series) > Len(series) THEN FALSE
    ELSE LET diffs == FirstDifferences(series)
         IN  IF Len(diffs) = 0 THEN FALSE
             ELSE 10 * CountNonNegative(diffs) >= 9 * Len(diffs)

is_likely_cumulative(series) ==
    IF Len(series) = 0 THEN FALSE
    ELSE IF 10 * CountNegative(series) > Len(series) THEN FALSE
    ELSE LET diffs == FirstDifferences(series)
         IN  IF Len(diffs) = 0 THEN FALSE
             ELSE 10 * CountNonNegative(diffs) > 9 * Len(diffs)

SeriesValues == {-1, 0, 1}

SeriesInputs == UNION {[1..k -> SeriesValues] : k \in 0..MaxSeriesLen}

\* A call of is_likely_cumulative on the series drawn at the start.
ClassifySeries ==
    /\ call.fn = "is_likely_cumulative" /\ ~call.done
    /\ call' = [call EXCEPT !.done = TRUE]
    /\ ret' = [value |-> is_likely_cumulative(call.series)]
    /\ UNCHANGED <<networks, cache, session, files>>

InitSeries ==
    /\ networks = <<>>
    /\ cache = NoCache
    /\ call \in {[fn |-> "is_likely_cumulative", series |-> s, done |-> FALSE] :
                    s \in SeriesInputs}
    /\ ret = NoCall
    /\ session = NoSession
    /\ files = {}

NextSeries == ClassifySeries

SpecSeries == InitSeries /\ [][NextSeries]_vars

Classified == call.fn = "is_likely_cumulative" /\ call.done

\* C6 (as claimed): for a series of at least two values the result is True exactly
\* when fewer than 10% of the values are negative and more than 90% of the first
\* differences are non-negative.
C6_FewerThanTenPercent ==
    (Classified /\ Len(call.series) >= 2)
        => (ret.value <=>
              /\ 10 * CountNegative(call.series) < Len(call.series)
              /\ 10 * CountNonNegative(FirstDifferences(call.series))
                    > 9 * (Len(call.series) - 1))

\* C6 (amended): True exactly when at most 10% of the values are negative and more
\* than 90% of the first differences are non-negative.
C6_AtMostTenPercent ==
    (Classified /\ Len(call.series) >= 2)
        => (ret.value <=>
              /\ 10 * CountNegative(call.series) <= Len(call.series)
              /\ 10 * CountNonNegative(FirstDifferences(call.series))
                    > 9 * (Len(call.series) - 1))

\* Both boundary ratios are met: exactly 10% negative values with the series
\* classified cumulative.
C6_Witness ==
    /\ Classified /\ Len(call.series) >= 2
    /\ 10 * CountNegative(call.series) = Len(call.series)
    /\ ret.value

\* Exactly 90% of the first differences non-negative: not classified cumulative.
C6_WitnessNinety ==
    /\ Classified /\ Len(call.series) >= 2
    /\ 10 * CountNonNegative(FirstDifferences(call.series)) = 9 * (Len(call.series) - 1)
    /\ CountNegative(call.series) = 0
    /\ ~ret.value

(***************************************************************************)
(* .diff().fillna(0) and .clip(lower=0) on a time-indexed matrix.          *)
(* diff() leaves missing cells (NaN) in the first row; a cell of its       *)
(* result is [nan, v].                                                     *)
(***************************************************************************)
NaN == [nan |-> TRUE, v |-> 0]

Num(x) == [nan |-> FALSE, v |-> x]

\* A plausible slip: the difference taken towards the next row, diff(periods=-1).
diff_backwards(df) ==
    [df EXCEPT !.data =
        [r \in DOMAIN df.data |->
            [c \in DOMAIN df.columns |->
                IF r = Len(df.data) THEN NaN
                ELSE Num(df.data[r][c] - df.data[r + 1][c])]]]

\* DataFrame.diff(): each row minus the row before it; the first row has none.
diff(df) ==
    [df EXCEPT !.data =
        [r \in DOMAIN df.data |->
            [c \in DOMAIN df.columns |->
                IF r = 1 THEN NaN
                ELSE Num(df.data[r][c] - df.data[r - 1][c])]]]

\* DataFrame.fillna(0): every missing cell becomes 0.
fillna0(df) ==
    [df EXCEPT !.data =
        [r \in DOMAIN df.data |->
            [c \in DOMAIN df.columns |->
                IF df.data[r][c].nan THEN 0 ELSE df.data[r][c].v]]]

\* df.diff().fillna(0)
to_instantaneous(df) == fillna0(diff(df))

\* DataFrame.clip(lower=0)
clip_lower0(df) ==
    [df EXCEPT !.data =
        [r \in DOMAIN df.data |-> [c \in DOMAIN df.columns |-> Max0(df.data[r][c])]]]

DiffValues == {-1, 0, 2}

\* The matrices of the differencing specification: up to MaxSnapshots rows in time
\* order, one or two columns.
DiffInputs ==
    UNION {{TsFrame(TRUE, [r \in 1..k |-> r], cols, m) :
                m \in [1..k -> [DOMAIN cols -> DiffValues]]} :
           k \in 0..MaxSnapshots, cols \in {<<"g1">>, <<"g1", "g2">>}}

\* .diff().fillna(0) applied to the matrix drawn at the start.
Differentiate ==
    /\ call.fn = "to_instantaneous" /\ ~call.done
    /\ call' = [call EXCEPT !.done = TRUE]
    /\ ret' = [df |-> to_instantaneous(call.matrix)]
    /\ UNCHANGED <<networks, cache, session, files>>

InitDiff ==
    /\ networks = <<>>
    /\ cache = NoCache
    /\ call \in {[fn |-> "to_instantaneous", matrix |-> m, done |-> FALSE] :
                    m \in DiffInputs}
    /\ ret = NoCall
    /\ session = NoSession
    /\ files = {}

NextDiff == Differentiate

SpecDiff == InitDiff /\ [][NextDiff]_vars

Differentiated == call.fn = "to_instantaneous" /\ call.done

AllRowsEqual(df) == \A r \in DOMAIN df.data : df.data[r] = df.data[1]

AllZero(df) == \A r \in DOMAIN df.data : \A c \in DOMAIN df.columns : df.data[r][c] = 0

\* C7: the result has the shape of the input, a first row of zeros and, below it,
\* each cell minus the cell above it; a matrix of equal rows maps to all zeros.
C7_FirstDifference ==
    Differentiated =>
        LET M == call.matrix
            D == ret.df
        IN  /\ D.index = M.index /\ D.columns = M.columns /\ D.dt = M.dt
            /\ Len(D.data) = Len(M.data)
            /\ \A r \in DOMAIN M.data :
                 /\ Len(D.data[r]) = Len(M.columns)
                 /\ \A c \in DOMAIN M.columns :
                      D.data[r][c] = IF r = 1 THEN 0 ELSE M.data[r][c] - M.data[r - 1][c]
            /\ (AllRowsEqual(M) => AllZero(D))

\* A matrix of three equal non-zero rows, one column negative, has been differenced
\* to zeros.
C7_Witness ==
    /\ Differentiated
    /\ Len(call.matrix.data) = 3 /\ Len(call.matrix.columns) = 2
    /\ call.matrix.data[1] = <<2, -1>>
    /\ AllRowsEqual(call.matrix) /\ AllZero(ret.df)

(***************************************************************************)
(* Aggregation and resampling steps shared by the plots tab, the           *)
(* comparison tab and the overview tab.                                    *)
(***************************************************************************)
\* Python's None where a string or a table is expected.
None == "None"

\* 1e-6, the carrier filter's epsilon, in units of 1e-6.
CarrierEpsilon == 1

\* sorted(): the alphabetical order of the carriers and of the component ids.
CarrierOrder == <<"coal", "gas", "wind">>
IdOrder == <<"g1", "g2", "g3", "l1">>

\* df.sum().sum()
FrameSum(df) == SeqSum([r \in DOMAIN df.data |-> SeqSum(df.data[r])])

\* df.abs().sum()[c] for the column at position c
AbsColumnSum(df, c) == SeqSum([r \in DOMAIN df.data |-> Abs(df.data[r][c])])

\* (df >= 0).all().all() and (df.iloc[0] > 0).any(), on a frame with a row
looks_cumulative(df) ==
    /\ \A r \in DOMAIN df.data : \A c \in DOMAIN df.columns : df.data[r][c] >= 0
    /\ \E c \in DOMAIN df.columns : df.data[1][c] > 0

\* A plausible slip: df.max(axis=1) for df.sum(axis=1), the largest value of each row.
total_sum_max(df, variable) ==
    TsFrame(df.dt, df.index, <<"Total " \o variable>>,
            [r \in DOMAIN df.data |->
                <<IF Len(df.data[r]) = 0 THEN 0
                  ELSE CHOOSE x \in Range(df.data[r]) : \A y \in Range(df.data[r]) : x >= y>>])

\* plot_df[f"Total {variable}"] = df.sum(axis=1)
total_sum(df, variable) ==
    TsFrame(df.dt, df.index, <<"Total " \o variable>>,
            [r \in DOMAIN df.data |-> <<SeqSum(df.data[r])>>])

\* static_df['carrier'][static_df.index.isin(df.columns)]: the components of the
\* static table that are columns of df, in the table's order.
filtered_carrier_map(static_df, df) == SelectIn(static_df.index, Range(df.columns))

\* df.groupby(carrier_map, axis=1).sum(): one column per carrier of the mapped
\* components, in sorted order, holding the row-wise sum of that carrier's columns;
\* a column of df that the map does not name is left out.
group_by_carrier(df, static_df, ids) ==
    LET carrier == static_df.data["carrier"]
        carriers == SelectIn(CarrierOrder, {carrier[g] : g \in Range(ids)})
        members(k) == SelectIn(df.columns, {g \in Range(ids) : carrier[g] = carriers[k]})
    IN  TsFrame(df.dt, df.index, carriers,
                [r \in DOMAIN df.data |->
                    [k \in DOMAIN carriers |->
                        SeqSum([j \in DOMAIN members(k) |->
                                   df.data[r][PosOf(df.columns, members(k)[j])]])]])

\* A plausible slip: the filter on the signed sum, df.sum() > 1e-6.
significant_columns_signed(df) ==
    SelectColumns(df,
        SelectIn(df.columns,
                 {df.columns[c] : c \in {k \in DOMAIN df.columns :
                     SeqSum([r \in DOMAIN df.data |-> df.data[r][k]]) > CarrierEpsilon}}))

\* df[df.columns[df.abs().sum() > 1e-6]]
significant_columns(df) ==
    SelectColumns(df,
        SelectIn(df.columns,
                 {df.columns[c] : c \in {k \in DOMAIN df.columns :
                     AbsColumnSum(df, k) > CarrierEpsilon}}))

\* Half-hours per hour, per day and per month (of thirty days): the bins of
\* resample("H"), resample("D") and resample("M").
HalfHoursPerHour == 2
HalfHoursPerDay == 48
HalfHoursPerMonth == 1440

freq_map == [Hourly |-> HalfHoursPerHour, Daily |-> HalfHoursPerDay,
             Monthly |-> HalfHoursPerMonth]

SetMin(S) == CHOOSE x \in S : \A y \in S : x <= y
SetMax(S) == CHOOSE x \in S : \A y \in S : x >= y

\* The label of bin b: its start, and for a month its last day.
BinLabel(frequency, b) ==
    IF frequency = "Monthly"
    THEN (b + 1) * HalfHoursPerMonth - HalfHoursPerDay
    ELSE b * freq_map[frequency]

\* plot_df.resample(freq).mean(): one row per bin from the first timestamp's bin to
\* the last one's; a cell is [sum, count] over the rows of the bin, its mean being
\* sum / count and missing (NaN) when count is 0.
resample_mean(df, frequency) ==
    IF Len(df.index) = 0
    THEN TsFrame(TRUE, <<>>, df.columns, <<>>)
    ELSE LET w == freq_map[frequency]
             first == SetMin(Range(df.index)) \div w
             last == SetMax(Range(df.index)) \div w
             rows(b) == {r \in DOMAIN df.index : df.index[r] \div w = b}
             rowseq(b) == SortedSeq(rows(b))
         IN  TsFrame(TRUE,
                     [k \in 1..(last - first + 1) |-> BinLabel(frequency, first + k - 1)],
                     df.columns,
                     [k \in 1..(last - first + 1) |->
                        [c \in DOMAIN df.columns |->
                            [sum |-> SeqSum([j \in DOMAIN rowseq(first + k - 1) |->
                                               df.data[rowseq(first + k - 1)[j]][c]]),
                             count |-> Cardinality(rows(first + k - 1))]]])

\* plot_df.isnull().all().all() on a resampled frame
all_null(df) ==
    \A r \in DOMAIN df.data : \A c \in DOMAIN df.columns : df.data[r][c].count = 0

(***************************************************************************)
(* process_and_plot_data (components/plots_metrics_tab.py): the body of    *)
(* the function.  It returns (table, figure, error message): table is      *)
(* "None" or "frame" with the frame in df, fig says whether a figure was   *)
(* made, error is None or the message.                                     *)
(***************************************************************************)
Failure(message) == [table |-> None, df |-> EmptyFrame, fig |-> FALSE, error |-> message]

\* Lines 55-58: differenced when the matrix-wide heuristic takes it as cumulative.
plot_instantaneous(df_raw_for_plot) ==
    IF looks_cumulative(df_raw_for_plot)
    THEN to_instantaneous(df_raw_for_plot)
    ELSE df_raw_for_plot

\* Line 66: [item for item in subset if item in df.columns]
valid_subset(subset, df) == SelectIn(subset, Range(df.columns))

\* A plausible slip: the subset left unapplied, every column aggregated.
plot_input_unfiltered(network, component_type, variable, subset) ==
    plot_instantaneous(get_pypsa_component_dfs(network, component_type, TRUE, variable))

\* Lines 55-69: the matrix that enters the aggregation step (when the function has
\* not returned before it).
plot_input(network, component_type, variable, subset) ==
    LET df == plot_instantaneous(get_pypsa_component_dfs(network, component_type, TRUE, variable))
    IN  IF Len(subset) > 0 THEN SelectColumns(df, valid_subset(subset, df)) ELSE df

\* A plausible slip: no test for "Original", which is then resampled by the hour.
plot_output_original_hourly(plot_df, frequency) ==
    IF ~plot_df.dt
    THEN Failure("Data index is not datetime, cannot resample. Ensure your time-series has a proper DatetimeIndex.")
    ELSE LET out == resample_mean(plot_df, IF frequency \in DOMAIN freq_map
                                           THEN frequency ELSE "Hourly")
         IN  IF empty(out) \/ all_null(out)
             THEN [table |-> "frame", df |-> out, fig |-> FALSE,
                   error |-> "No data available for the selected options."]
             ELSE [table |-> "frame", df |-> out, fig |-> TRUE, error |-> None]

\* Lines 102-117: resampling and the final emptiness test.
plot_output(plot_df, frequency) ==
    IF frequency # "Original" /\ ~plot_df.dt
    THEN Failure("Data index is not datetime, cannot resample. Ensure your time-series has a proper DatetimeIndex.")
    ELSE LET resampled == frequency # "Original" /\ frequency \in DOMAIN freq_map
             out == IF resampled THEN resample_mean(plot_df, frequency) ELSE plot_df
         IN  IF empty(out) \/ (resampled /\ all_null(out))
             THEN [table |-> "frame", df |-> out, fig |-> FALSE,
                   error |-> "No data available for the selected options."]
             ELSE [table |-> "frame", df |-> out, fig |-> TRUE, error |-> None]

\* Lines 71-100: the aggregation modes.
plot_aggregate(network, component_type, variable, df, aggregation, frequency) ==
    LET static_df == get_pypsa_component_dfs(network, component_type, FALSE, None)
    IN  IF aggregation = "Per Component" THEN plot_output(df, frequency)
        ELSE IF aggregation = "Total Sum" THEN plot_output(total_sum(df, variable), frequency)
        ELSE IF aggregation = "Group by Carrier"
        THEN IF "carrier" \notin Range(static_df.columns)
             THEN Failure("Cannot group by carrier: '" \o component_type
                          \o "' components do not have a 'carrier' attribute.")
             ELSE IF Len(filtered_carrier_map(static_df, df)) = 0
             THEN Failure("No components with 'carrier' attribute found in the filtered data for "
                          \o component_type \o ".")
             ELSE plot_output(
                      significant_columns(
                          group_by_carrier(df, static_df, filtered_carrier_map(static_df, df))),
                      frequency)
        ELSE plot_output(EmptyFrame, frequency)

process_and_plot_data(network, component_type, variable, subset, aggregation, frequency) ==
    IF component_type = "" \/ variable = ""
    THEN Failure("Please select a component and a variable.")
    ELSE
    LET df_raw_for_plot == get_pypsa_component_dfs(network, component_type, TRUE, variable)
        df == plot_instantaneous(df_raw_for_plot)
    IN  IF empty(df_raw_for_plot)
        THEN Failure("Time-series data for variable '" \o variable
                     \o "' not found or is empty for component '" \o component_type \o "'.")
        ELSE IF FrameSum(df) = 0 /\ Len(df.columns) > 0
        THEN [table |-> "frame", df |-> EmptyFrame, fig |-> FALSE,
              error |-> "Data seems to be all zeros or constant after processing. Check source data."]
        ELSE IF Len(subset) > 0 /\ Len(valid_subset(subset, df)) = 0
        THEN Failure("Selected subset is not available in the data.")
        ELSE plot_aggregate(network, component_type, variable,
                            plot_input(network, component_type, variable, subset),
                            aggregation, frequency)

(***************************************************************************)
(* The comparison tab's "Generate Comparison Plot" handler                 *)
(* (components/comparison_tab.py, lines 183-276).                          *)
(***************************************************************************)
\* A network of the loop that contributes no table: the message it appends to
\* errors_encountered.
Skipped(message) == [kept |-> FALSE, df |-> EmptyFrame, error |-> message]

Kept(df) == [kept |-> TRUE, df |-> df, error |-> None]

\* Line 237: every column prefixed with the network's name.
prefix_columns(net_name, df) ==
    [df EXCEPT !.columns = [c \in DOMAIN df.columns |-> net_name \o ": " \o df.columns[c]]]

\* A plausible slip: the clip applied whatever the variable is.
comparison_input_clip_always(net_obj, component_type, variable, subset) ==
    LET df_raw_for_net == get_pypsa_component_dfs(net_obj, component_type, TRUE, variable)
        df_instantaneous == clip_lower0(to_instantaneous(df_raw_for_net))
    IN  IF Len(subset) > 0
        THEN SelectColumns(df_instantaneous, SelectIn(subset, Range(df_instantaneous.columns)))
        ELSE df_instantaneous

\* Lines 196-205: differenced, clipped at zero for variable p, then subset.
comparison_input(net_obj, component_type, variable, subset) ==
    LET df_raw_for_net == get_pypsa_component_dfs(net_obj, component_type, TRUE, variable)
        diffed == to_instantaneous(df_raw_for_net)
        df_instantaneous == IF variable = "p" THEN clip_lower0(diffed) ELSE diffed
    IN  IF Len(subset) > 0
        THEN SelectColumns(df_instantaneous, SelectIn(subset, Range(df_instantaneous.columns)))
        ELSE df_instantaneous

\* Lines 228-238: resampling, then the renaming of the columns.
comparison_output(net_name, processed_df, frequency) ==
    IF frequency # "Original" /\ ~processed_df.dt
    THEN Skipped("Data index for network '" \o net_name \o "' is not datetime, cannot resample.")
    ELSE IF frequency # "Original" /\ frequency \in DOMAIN freq_map
         THEN Kept(prefix_columns(net_name, resample_mean(processed_df, frequency)))
         ELSE Kept(prefix_columns(net_name, processed_df))

\* Lines 189-238: one pass of the loop over the selected networks.  (The message of
\* line 204 also shows the selected tuple.)
comparison_processed(net_name, net_obj, component_type, variable, subset, aggregation, frequency) ==
    LET df_raw_for_net == get_pypsa_component_dfs(net_obj, component_type, TRUE, variable)
        df_instantaneous == comparison_input(net_obj, component_type, variable, subset)
        static_df_for_group == get_pypsa_component_dfs(net_obj, component_type, FALSE, None)
        carrier_map_for_group == filtered_carrier_map(static_df_for_group, df_instantaneous)
        grouped == significant_columns(
                       group_by_carrier(df_instantaneous, static_df_for_group,
                                        carrier_map_for_group))
    IN  IF empty(df_raw_for_net)
        THEN Skipped("No data for '" \o component_type \o "." \o variable
                     \o "' in network '" \o net_name \o "'.")
        ELSE IF Len(subset) > 0 /\ empty(df_instantaneous)
        THEN Skipped("No data for selected subset in network '" \o net_name \o "'.")
        ELSE IF aggregation = "Per Component"
        THEN comparison_output(net_name, df_instantaneous, frequency)
        ELSE IF aggregation = "Total Sum"
        THEN comparison_output(net_name, total_sum(df_instantaneous, variable), frequency)
        ELSE IF aggregation = "Group by Carrier"
        THEN IF "carrier" \notin Range(static_df_for_group.columns)
             THEN Skipped("Cannot group by carrier: '" \o component_type
                          \o "' components in network '" \o net_name
                          \o "' do not have a 'carrier' attribute.")
             ELSE IF Len(carrier_map_for_group) = 0
             THEN Skipped("No components with 'carrier' info found for grouping in network '"
                          \o net_name \o "'.")
             ELSE IF empty(grouped)
             THEN Skipped("No significant generation for any carrier after processing instantaneous values in network '"
                          \o net_name \o "'.")
             ELSE comparison_output(net_name, grouped, frequency)
        ELSE comparison_output(net_name, EmptyFrame, frequency)

\* Which object a name of the loop refers to: "stored", the DataFrame held by the
\* network (get_pypsa_component_dfs returns it as it is, lines 74 and 108), or "new",
\* a frame made by the call.
returned_object(df) == IF empty(df) THEN "new" ELSE "stored"

\* A plausible slip: the raw matrix taken as it is (as line 58 of the plots tab does),
\* so that the name refers to the object it was given.
differenced_object_alias(object) == object

\* Line 196: diff() and fillna(0) each return a new frame.
differenced_object(object) == "new"

\* The object whose columns line 237 assigns, in a pass that reaches it.
renamed_object(net_obj, component_type, variable, subset, aggregation, frequency) ==
    LET df_raw_for_net == returned_object(
                              get_pypsa_component_dfs(net_obj, component_type, TRUE, variable))
        diffed == differenced_object(df_raw_for_net)
        clipped == IF variable = "p" THEN "new" ELSE diffed
        df_instantaneous == IF Len(subset) > 0 THEN "new" ELSE clipped
        processed_df == IF aggregation = "Per Component" THEN df_instantaneous ELSE "new"
    IN  IF frequency # "Original" /\ frequency \in DOMAIN freq_map THEN "new" ELSE processed_df

\* The network after its pass of the loop: line 237 assigns the prefixed names to the
\* columns of the object processed_df refers to.
network_after_pass(net_name, net_obj, component_type, variable, subset, aggregation, frequency) ==
    IF /\ comparison_processed(net_name, net_obj, component_type, variable, subset,
                               aggregation, frequency).kept
       /\ renamed_object(net_obj, component_type, variable, subset, aggregation,
                         frequency) = "stored"
    THEN LET attr == component_to_attribute_map[component_type] \o "_t"
         IN  [net_obj EXCEPT ![attr] =
                 [@ EXCEPT ![variable] = prefix_columns(net_name, @)]]
    ELSE net_obj

\* The kept tables, and the messages, of a sequence of loop passes, in order.
RECURSIVE KeptFrames(_)
KeptFrames(passes) ==
    IF Len(passes) = 0 THEN <<>>
    ELSE (IF Head(passes).kept THEN <<Head(passes).df>> ELSE <<>>) \o KeptFrames(Tail(passes))

RECURSIVE Messages(_)
Messages(passes) ==
    IF Len(passes) = 0 THEN <<>>
    ELSE (IF Head(passes).kept THEN <<>> ELSE <<Head(passes).error>>) \o Messages(Tail(passes))

\* For every column of the concatenation: <<table, column position in it>>.
RECURSIVE ColumnOwners(_, _)
ColumnOwners(frames, i) ==
    IF i > Len(frames) THEN <<>>
    ELSE [c \in DOMAIN frames[i].columns |-> <<i, c>>] \o ColumnOwners(frames, i + 1)

\* The index of an outer join: the tables' own index when they all share it, else
\* the sorted union.
union_index(frames) ==
    IF \A i \in DOMAIN frames : frames[i].index = frames[1].index
    THEN frames[1].index
    ELSE SortedSeq(UNION {Range(frames[i].index) : i \in DOMAIN frames})

\* pd.concat(frames, axis=1, join='outer') over the given index: the columns side
\* by side; a cell is [nan, v], missing where the table has no row at the timestamp.
concat_columns(frames, index) ==
    LET owners == ColumnOwners(frames, 1)
    IN  TsFrame(\E i \in DOMAIN frames : frames[i].dt,
                index,
                [c \in DOMAIN owners |-> frames[owners[c][1]].columns[owners[c][2]]],
                [r \in DOMAIN index |->
                    [c \in DOMAIN owners |->
                        LET f == frames[owners[c][1]]
                        IN  IF index[r] \in Range(f.index)
                            THEN [nan |-> FALSE,
                                  v |-> f.data[PosOf(f.index, index[r])][owners[c][2]]]
                            ELSE NaN]])

\* A plausible slip: join='inner', the timestamps all tables share.
combine_inner(frames) ==
    concat_columns(frames,
                   SortedSeq({t \in UNION {Range(frames[i].index) : i \in DOMAIN frames} :
                                 \A i \in DOMAIN frames : t \in Range(frames[i].index)}))

\* Lines 247-248: the outer join, then sort_index().
combine(frames) ==
    concat_columns(frames, SortedSeq(UNION {Range(frames[i].index) : i \in DOMAIN frames}))

\* combined_df.isnull().all().all(): every cell a gap or the mean of an empty bin.
combined_all_null(df, resampled) ==
    \A r \in DOMAIN df.data : \A c \in DOMAIN df.columns :
        \/ df.data[r][c].nan
        \/ resampled /\ df.data[r][c].v.count = 0

\* The handler's outcome: the tables and messages of the loop, the combined table
\* (when there is one), and what is shown.
generate_comparison_plot(nets, selected, component_type, variable, subset, aggregation, frequency) ==
    LET passes == [i \in DOMAIN selected |->
                      comparison_processed(selected[i], nets[selected[i]], component_type,
                                           variable, subset, aggregation, frequency)]
        plot_data_frames == KeptFrames(passes)
        combined_df == combine(plot_data_frames)
        resampled == frequency # "Original" /\ frequency \in DOMAIN freq_map
    IN  IF Len(plot_data_frames) = 0
        THEN [plot_data_frames |-> plot_data_frames, errors_encountered |-> Messages(passes),
              combined |-> None, combined_df |-> EmptyFrame, shown |-> "info"]
        ELSE IF empty(combined_df) \/ combined_all_null(combined_df, resampled)
        THEN [plot_data_frames |-> plot_data_frames, errors_encountered |-> Messages(passes),
              combined |-> "frame", combined_df |-> combined_df, shown |-> "warning"]
        ELSE [plot_data_frames |-> plot_data_frames, errors_encountered |-> Messages(passes),
              combined |-> "frame", combined_df |-> combined_df, shown |-> "plot"]

(***************************************************************************)
(* _get_network_kpis (components/utils.py) and render_overview_tab         *)
(* (components/overview_tab.py).                                           *)
(***************************************************************************)
\* static_df[attr].sum() when the table has rows and the column, else 0
column_total(static_df, attr) ==
    IF ~empty(static_df) /\ attr \in Range(static_df.columns)
    THEN SeqSum([i \in DOMAIN static_df.index |-> static_df.data[attr][static_df.index[i]]])
    ELSE 0

\* Lines 22-28: the sum of the zero-floored first differences of generators_t.p.
total_generation(network) ==
    LET generators_t_p == get_pypsa_component_dfs(network, "Generator", TRUE, "p")
    IN  IF ~empty(generators_t_p)
        THEN FrameSum(clip_lower0(to_instantaneous(generators_t_p)))
        ELSE 0

\* Line 30 and the test of line 33: the objective is an int or float that is not NaN.
\* network.objective is [type, v]: a number v, the float NaN, or another object.
objective_is_number(network) ==
    /\ "objective" \in DOMAIN network
    /\ network["objective"].type = "number"

\* A plausible slip: "unavailable" reported as the cost 0.
system_cost_unavailable_as_zero(network) ==
    IF objective_is_number(network)
    THEN IF network["objective"].v < 0
         THEN [system_cost_was_negative |-> TRUE, total_system_cost |-> Num(0)]
         ELSE [system_cost_was_negative |-> FALSE,
               total_system_cost |-> Num(network["objective"].v)]
    ELSE [system_cost_was_negative |-> FALSE, total_system_cost |-> Num(0)]

\* Lines 30-40: the flag and the cost; a cost is [nan, v].
system_cost(network) ==
    IF objective_is_number(network)
    THEN IF network["objective"].v < 0
         THEN [system_cost_was_negative |-> TRUE, total_system_cost |-> Num(0)]
         ELSE [system_cost_was_negative |-> FALSE,
               total_system_cost |-> Num(network["objective"].v)]
    ELSE [system_cost_was_negative |-> FALSE, total_system_cost |-> NaN]

_get_network_kpis(network) ==
        [num_buses |-> Len(network["buses"].index),
         num_lines |-> Len(network["lines"].index),
         num_generators |-> Len(network["generators"].index),
         num_storage_units |-> Len(network["storage_units"].index),
         num_snapshots |-> IF "snapshots" \in DOMAIN network
                           THEN Len(network["snapshots"]) ELSE 0,
         total_p_nom_generators |-> column_total(network["generators"], "p_nom"),
         total_p_nom_storage |-> column_total(network["storage_units"], "p_nom"),
         total_annual_generation_mwh |-> total_generation(network),
         system_cost_was_negative |-> system_cost(network).system_cost_was_negative,
         total_system_cost |-> system_cost(network).total_system_cost]

\* Lines 41-66: the load and generation curve, or none.
load_generation_curve(network, kpis) ==
    LET loads_t_p == get_pypsa_component_dfs(network, "Load", TRUE, "p")
        generators_t_p == get_pypsa_component_dfs(network, "Generator", TRUE, "p")
        series == <<[total_sum(to_instantaneous(loads_t_p), "") EXCEPT !.columns = <<"Load">>],
                    [total_sum(to_instantaneous(generators_t_p), "")
                        EXCEPT !.columns = <<"Generation">>]>>
    IN  IF kpis.num_snapshots = 0 THEN [shown |-> FALSE, df |-> EmptyFrame]
        ELSE IF ~empty(loads_t_p) /\ ~empty(generators_t_p)
        THEN [shown |-> TRUE, df |-> concat_columns(series, union_index(series))]
        ELSE [shown |-> FALSE, df |-> EmptyFrame]

\* Lines 68-107: the generation-by-carrier chart, or none.
generation_by_carrier(network, kpis) ==
    LET generators_t_p_all == get_pypsa_component_dfs(network, "Generator", TRUE, "p")
        generators_static_df == get_pypsa_component_dfs(network, "Generator", FALSE, None)
        filtered_ids == filtered_carrier_map(generators_static_df, generators_t_p_all)
        instantaneous_generators_t_p == to_instantaneous(generators_t_p_all)
        gen_by_carrier_active ==
            significant_columns(
                group_by_carrier(instantaneous_generators_t_p, generators_static_df,
                                 filtered_ids))
    IN  IF kpis.num_snapshots = 0 THEN [shown |-> FALSE, df |-> EmptyFrame]
        ELSE IF /\ ~empty(generators_t_p_all) /\ ~empty(generators_static_df)
                /\ "carrier" \in Range(generators_static_df.columns)
        THEN IF Len(filtered_ids) > 0
             THEN IF ~empty(gen_by_carrier_active)
                  THEN [shown |-> TRUE, df |-> gen_by_carrier_active]
                  ELSE [shown |-> FALSE, df |-> EmptyFrame]
             ELSE [shown |-> FALSE, df |-> EmptyFrame]
        ELSE [shown |-> FALSE, df |-> EmptyFrame]

\* What a render of the overview tab computes: the KPIs and the two charts.
render_overview_tab(network) ==
    LET kpis == _get_network_kpis(network)
    IN  [kpis |-> kpis,
         load_generation |-> load_generation_curve(network, kpis),
         carrier_chart |-> generation_by_carrier(network, kpis)]

(***************************************************************************)
(* Discovery of the variables a network reports, and the marginal cost by  *)
(* carrier (plots_metrics_tab.py, utils.py).                               *)
(***************************************************************************)
component_names == <<"Generator", "Load", "Line", "StorageUnit", "Bus">>

\* common_ts_variables, in the order sorted() gives them.
common_ts_variables == <<"marginal_price", "p", "p0", "p1", "q", "state_of_charge">>

\* f"{comp.lower()}s_t"
lower_s_t ==
    [Generator |-> "generators_t", Load |-> "loads_t", Line |-> "lines_t",
     StorageUnit |-> "storageunits_t", Bus |-> "buss_t"]

\* The variables of kind comp for which the network has a non-empty time-indexed matrix.
found_variables(network, comp) ==
    IF lower_s_t[comp] \notin DOMAIN network
    THEN {}
    ELSE {var \in Range(common_ts_variables) :
            LET df_for_var == get_pypsa_component_dfs(network, comp, TRUE, var)
            IN  ~empty(df_for_var) /\ df_for_var.dt}

\* The body of discover_timeseries_components: kind -> sorted variables, for the kinds
\* with at least one variable.
discover_timeseries_components(network) ==
    [comp \in {c \in Range(component_names) : found_variables(network, c) # {}} |->
        SelectIn(common_ts_variables, found_variables(network, comp))]

\* The body of _get_available_ts_variables_for_network: the same introspection.
_get_available_ts_variables_for_network(network) ==
    [comp \in {c \in Range(component_names) : found_variables(network, c) # {}} |->
        SelectIn(common_ts_variables, found_variables(network, comp))]

\* comparison_tab.py:128: what the i-th call of the loop returns.  The function's only
\* parameter, _network, starts with an underscore, so every call has the same key: a
\* stored value is returned when there is one; otherwise the first call computes and
\* stores the value for the first selected network and the later calls return it.
components_for_net(nets, selected, i) ==
    LET fn == "_get_available_ts_variables_for_network"
    IN  IF cache_hit(fn, <<>>)
        THEN cached_value(fn, <<>>)
        ELSE _get_available_ts_variables_for_network(nets[selected[1]])

\* comparison_tab.py:124-132: kind -> the union of the lists the calls return.
all_available_components(nets, selected) ==
    LET per == [i \in DOMAIN selected |-> components_for_net(nets, selected, i)]
    IN  [comp_type \in UNION {DOMAIN per[i] : i \in DOMAIN selected} |->
            UNION {IF comp_type \in DOMAIN per[i] THEN Range(per[i][comp_type]) ELSE {} :
                   i \in DOMAIN selected}]

NoSeries == [raised |-> FALSE, series |-> <<>>]

\* The body of _calculate_carrier_marginal_costs: carrier -> the zero-floored sum over
\* time of (zero-floored first difference of p) * marginal_cost of the carrier's
\* generating generators.  raised: .loc meets a generating column that is no row of
\* network.generators (KeyError).
_calculate_carrier_marginal_costs(network) ==
    LET generators == network["generators"]
    IN  IF empty(generators) \/ "carrier" \notin Range(generators.columns)
                             \/ "marginal_cost" \notin Range(generators.columns)
        THEN NoSeries
        ELSE
        LET generators_t_p == get_pypsa_component_dfs(network, "Generator", TRUE, "p")
        IN  IF empty(generators_t_p)
            THEN NoSeries
            ELSE
            LET inst == clip_lower0(to_instantaneous(generators_t_p))
                generating == SelectSeq(inst.columns,
                                  LAMBDA g : AbsColumnSum(inst, PosOf(inst.columns, g))
                                                > CarrierEpsilon)
                carriers == {generators.data["carrier"][g] : g \in Range(generating)}
                cost(c) ==
                    SeqSum([j \in DOMAIN generating |->
                              IF generators.data["carrier"][generating[j]] = c
                              THEN SeqSum(Column(inst, generating[j]))
                                      * generators.data["marginal_cost"][generating[j]]
                              ELSE 0])
            IN  IF Len(generating) = 0
                THEN NoSeries
                ELSE IF ~(Range(generating) \subseteq Range(generators.index))
                THEN [raised |-> TRUE, series |-> <<>>]
                ELSE [raised |-> FALSE, series |-> [c \in carriers |-> Max0(cost(c))]]

(***************************************************************************)
(* The pipelines as actions on the loaded networks.                        *)
(***************************************************************************)
\* A call of process_and_plot_data(network_hash, network, ...) for a loaded network.
\* _network_hash and _network start with an underscore: st.cache_data leaves them
\* out of the key.
ProcessAndPlot(n, component_type, variable, subset, aggregation, frequency) ==
    LET fn == "process_and_plot_data"
        key == <<component_type, variable, subset, aggregation, frequency>>
        value == cache_data(fn, key,
                            process_and_plot_data(networks[n], component_type, variable,
                                                  subset, aggregation, frequency))
    IN  /\ Idle
        /\ call' = [fn |-> fn, net |-> n, hit |-> cache_hit(fn, key),
                    component_type |-> component_type, variable |-> variable,
                    subset |-> subset, aggregation |-> aggregation,
                    frequency |-> frequency]
        /\ ret' = value
        /\ cache' = cache_after(fn, key, value)
        /\ UNCHANGED <<networks, session, files>>

\* A press of "Generate Comparison Plot" with the widgets' selections.
GenerateComparisonPlot(selected, component_type, variable, subset, aggregation, frequency) ==
    /\ Idle
    /\ Cardinality(DOMAIN networks) > 1
    /\ Len(selected) > 0
    /\ call' = [fn |-> "generate_comparison_plot", selected |-> selected,
                component_type |-> component_type, variable |-> variable,
                subset |-> subset, aggregation |-> aggregation, frequency |-> frequency]
    /\ ret' = generate_comparison_plot(networks, selected, component_type, variable,
                                       subset, aggregation, frequency)
    /\ networks' = [n \in DOMAIN networks |->
                        IF n \in Range(selected)
                        THEN network_after_pass(n, networks[n], component_type, variable,
                                                subset, aggregation, frequency)
                        ELSE networks[n]]
    /\ UNCHANGED <<cache, session, files>>

\* A render of the overview tab for a loaded network.
RenderOverview(n) ==
    /\ Idle
    /\ call' = [fn |-> "render_overview_tab", net |-> n]
    /\ ret' = render_overview_tab(networks[n])
    /\ UNCHANGED <<networks, cache, session, files>>

\* A call of discover_timeseries_components(network_hash, network): both arguments
\* start with an underscore, so every call has the same key.
DiscoverTimeseriesComponents(n) ==
    LET fn == "discover_timeseries_components"
        value == cache_data(fn, <<>>, discover_timeseries_components(networks[n]))
    IN  /\ Idle
        /\ call' = [fn |-> fn, net |-> n, hit |-> cache_hit(fn, <<>>)]
        /\ ret' = value
        /\ cache' = cache_after(fn, <<>>, value)
        /\ UNCHANGED <<networks, session, files>>

\* A call of _get_available_ts_variables_for_network(_network).
GetAvailableTsVariables(n) ==
    LET fn == "_get_available_ts_variables_for_network"
        value == cache_data(fn, <<>>, _get_available_ts_variables_for_network(networks[n]))
    IN  /\ Idle
        /\ call' = [fn |-> fn, net |-> n, hit |-> cache_hit(fn, <<>>)]
        /\ ret' = value
        /\ cache' = cache_after(fn, <<>>, value)
        /\ UNCHANGED <<networks, session, files>>

\* The comparison tab's discovery for the selected networks (comparison_tab.py:124-134).
DiscoverAcrossNetworks(selected) ==
    LET fn == "_get_available_ts_variables_for_network"
    IN  /\ Idle
        /\ Len(selected) > 0
        /\ call' = [fn |-> "all_available_components", selected |-> selected,
                    hit |-> cache_hit(fn, <<>>)]
        /\ ret' = [available |-> all_available_components(networks, selected)]
        /\ cache' = cache_after(fn, <<>>, components_for_net(networks, selected, 1))
        /\ UNCHANGED <<networks, session, files>>

\* A call of _calculate_carrier_marginal_costs(_network_hash, _network).  A call that
\* raises stores nothing.
CalculateCarrierMarginalCosts(n) ==
    LET fn == "_calculate_carrier_marginal_costs"
        value == cache_data(fn, <<>>, _calculate_carrier_marginal_costs(networks[n]))
    IN  /\ Idle
        /\ call' = [fn |-> fn, net |-> n, hit |-> cache_hit(fn, <<>>)]
        /\ ret' = value
        /\ cache' = IF value.raised THEN cache ELSE cache_after(fn, <<>>, value)
        /\ UNCHANGED <<networks, session, files>>

(***************************************************************************)
(* The networks of the pipeline specification.  Network A varies: two      *)
(* generator columns g1, g2 over every matrix of PlotValues with up to     *)
(* MaxPlotSnapshots snapshots; a generator table that names both with      *)
(* different carriers, both with one carrier, or g1 alone; one load l1     *)
(* (loads have no carrier column).  Network B is one fixed network with    *)
(* other snapshots.  The server restarts between two requests, so every   *)
(* request of this specification is computed by the function's body.       *)
(***************************************************************************)
PlotValues == {-1, 0, 1}

\* The r-th snapshot, in half-hours: 0, 47, 188, ...
Stamp(r) == (r - 1) * (r - 1) * 47

PlotIndexes == {[r \in 1..k |-> Stamp(r)] : k \in 0..MaxPlotSnapshots}

PlotGeneratorTables ==
    {GeneratorTable(<<"g1", "g2">>, CarrierOf, MarginalCostOf, PNomOf),
     GeneratorTable(<<"g1", "g2">>, [g1 |-> "gas", g2 |-> "gas"], MarginalCostOf, PNomOf),
     GeneratorTable(<<"g1">>, CarrierOf, MarginalCostOf, PNomOf)}

LoadTable == StaticFrame(<<"l1">>, StaticColumns["loads"], [bus |-> [l1 |-> "b1"]])

\* The load l1 drawing 2, 4, 6, ... cumulatively.
LoadMatrix(index) == TsFrame(TRUE, index, <<"l1">>, [r \in DOMAIN index |-> <<2 * r>>])

PlotNetwork(generators, index, p) ==
    [BaseNetwork(index) EXCEPT
        !["generators"] = generators,
        !["generators_t"] = [@ EXCEPT !["p"] = TsFrame(TRUE, index, <<"g1", "g2">>, p)],
        !["loads"] = LoadTable,
        !["loads_t"] = [@ EXCEPT !["p"] = LoadMatrix(index)]]

PlotNets ==
    UNION {{PlotNetwork(t, i, p) : p \in [DOMAIN i -> [1..2 -> PlotValues]]} :
           t \in PlotGeneratorTables, i \in PlotIndexes}

ReferenceNetwork ==
    [BaseNetwork(<<0, HalfHoursPerDay>>) EXCEPT
        !["generators"] = GeneratorTable(<<"g1">>, CarrierOf, MarginalCostOf, PNomOf),
        !["generators_t"] =
            [@ EXCEPT !["p"] = TsFrame(TRUE, <<0, HalfHoursPerDay>>, <<"g1">>, <<<<1>>, <<3>>>>)]]

PlotRequests == {<<"Generator", "p">>, <<"Generator", "q">>, <<"Load", "p">>}
PlotSubsets == {<<>>, <<"g1">>, <<"g3">>}
Aggregations == {"Per Component", "Total Sum", "Group by Carrier"}
Frequencies == {"Original", "Daily"}
Selections == {<<"A">>, <<"A", "B">>, <<"B", "A">>}

InitPlots ==
    /\ networks \in {[A |-> net, B |-> ReferenceNetwork] : net \in PlotNets}
    /\ cache = NoCache
    /\ call = NoCall
    /\ ret = NoCall
    /\ session = NoSession
    /\ files = {}

NextPlots ==
    \/ \E n \in DOMAIN networks, q \in PlotRequests, subset \in PlotSubsets,
          aggregation \in Aggregations, frequency \in Frequencies :
            ProcessAndPlot(n, q[1], q[2], subset, aggregation, frequency)
    \/ \E selected \in Selections, q \in PlotRequests, subset \in PlotSubsets,
          aggregation \in Aggregations, frequency \in Frequencies :
            GenerateComparisonPlot(selected, q[1], q[2], subset, aggregation, frequency)
    \/ \E n \in DOMAIN networks : RenderOverview(n)
    \/ Restart

SpecPlots == InitPlots /\ [][NextPlots]_vars

(***************************************************************************)
(* Properties of the pipelines.                                            *)
(***************************************************************************)
\* process_and_plot_data has been called and its body has run (nothing was stored
\* under the call's key).
IsPlot == call.fn = "process_and_plot_data" /\ ~call.hit
IsComparison == call.fn = "generate_comparison_plot"
IsOverview == call.fn = "render_overview_tab"

\* The matrix a pipeline call reads from network n.
RawMatrix(n) == get_pypsa_component_dfs(networks[n], call.component_type, TRUE, call.variable)

\* The pre-aggregation matrix of the comparison pass over network n.
ComparisonInput(n) ==
    comparison_input(networks[n], call.component_type, call.variable, call.subset)

\* The selected networks whose pass reaches the aggregation step.
Aggregated ==
    {n \in Range(call.selected) :
        ~empty(RawMatrix(n)) /\ ~(Len(call.subset) > 0 /\ empty(ComparisonInput(n)))}

\* The sum of all cells, column by column.
DoubleSum(df) ==
    SeqSum([c \in DOMAIN df.columns |-> SeqSum([r \in DOMAIN df.data |-> df.data[r][c]])])

\* df is the one-column table named label holding the row sums of pre.
IsTotalOf(df, label, pre) ==
    /\ df.columns = <<label>>
    /\ ToString(df.index) = ToString(pre.index)
    /\ Len(df.data) = Len(pre.data)
    /\ \A r \in DOMAIN pre.data : df.data[r] = <<SeqSum(pre.data[r])>>
    /\ SeqSum([r \in DOMAIN df.data |-> df.data[r][1]]) = DoubleSum(pre)

\* C5 (as claimed): for a matrix that exists, with no subset filter, aggregated per
\* component or to its total at the original resolution, process_and_plot_data
\* returns a table and no error reason; also when the values are all zero or sum
\* to zero.
C5_ZeroDataIsNotAnError ==
    (/\ IsPlot /\ ~empty(RawMatrix(call.net))
     /\ call.subset = <<>> /\ call.frequency = "Original"
     /\ call.aggregation \in {"Per Component", "Total Sum"})
        => (ret.error = None /\ ret.table = "frame" /\ ~empty(ret.df))

\* C9: in Total Sum mode at the original resolution the table of either pipeline has
\* the single column "Total <variable>" (prefixed with the network's name in the
\* comparison), holding at each timestamp the sum of the pre-aggregation matrix's
\* row; the column's sum over time is the double sum of that matrix.
C9_TotalSum ==
    /\ (IsPlot /\ call.aggregation = "Total Sum" /\ call.frequency = "Original" /\ ret.fig)
          => IsTotalOf(ret.df, "Total " \o call.variable,
                       plot_input(networks[call.net], call.component_type,
                                  call.variable, call.subset))
    /\ (IsComparison /\ call.aggregation = "Total Sum" /\ call.frequency = "Original")
          => /\ Len(ret.plot_data_frames) = Cardinality(Aggregated)
             /\ \A n \in Aggregated :
                  \E k \in DOMAIN ret.plot_data_frames :
                      IsTotalOf(ret.plot_data_frames[k],
                                n \o ": Total " \o call.variable, ComparisonInput(n))

\* Both generators of network A contribute non-zero values to a total that process_and_plot_data returned.
C9_Witness ==
    /\ IsPlot /\ call.net = "A" /\ call.aggregation = "Total Sum"
    /\ call.frequency = "Original" /\ call.subset = <<>> /\ ret.fig
    /\ Len(ret.df.data) = 2
    /\ ret.df.data[1] = <<-2>> /\ ret.df.data[2] = <<1>>

\* The components of table static_df that are columns of df and have carrier c.
CarrierMembers(static_df, df, c) ==
    {g \in Range(static_df.index) \cap Range(df.columns) : static_df.data["carrier"][g] = c}

\* Over all time, the sum of the absolute values of carrier c's summed series.
CarrierAbsSum(static_df, df, c) ==
    LET members == SelectIn(IdOrder, CarrierMembers(static_df, df, c))
    IN  SeqSum([r \in DOMAIN df.data |->
                   Abs(SeqSum([j \in DOMAIN members |->
                                  df.data[r][PosOf(df.columns, members[j])]]))])

CarriersPresent(static_df, df) ==
    {static_df.data["carrier"][g] : g \in Range(static_df.index) \cap Range(df.columns)}

\* The carriers whose summed series is above the epsilon.
Contributing(static_df, df) ==
    {c \in CarriersPresent(static_df, df) : CarrierAbsSum(static_df, df, c) > CarrierEpsilon}

\* df without the columns of the components of carrier c.
WithoutCarrier(static_df, df, c) ==
    SelectColumns(df, SelectIn(df.columns, Range(df.columns) \ CarrierMembers(static_df, df, c)))

\* The columns the Group by Carrier step emits for matrix df.
EmittedCarriers(static_df, df) ==
    Range(significant_columns(
              group_by_carrier(df, static_df, filtered_carrier_map(static_df, df))).columns)

\* The emitted set is the set of contributing carriers, and stays the same when the
\* columns of a carrier at or below the epsilon are removed from the matrix.
EmitsContributing(static_df, df, emitted) ==
    /\ emitted = Contributing(static_df, df)
    /\ \A c \in CarriersPresent(static_df, df) \ Contributing(static_df, df) :
          EmittedCarriers(static_df, WithoutCarrier(static_df, df, c)) = emitted

\* Every column of table df has a sum of absolute values above the epsilon.
AllSignificant(df) == \A c \in DOMAIN df.columns : AbsColumnSum(df, c) > CarrierEpsilon

StaticOf(n) == get_pypsa_component_dfs(networks[n], call.component_type, FALSE, None)

\* The passes of the comparison loop that reach the grouping.
Grouped ==
    {n \in Aggregated :
        /\ "carrier" \in Range(StaticOf(n).columns)
        /\ Len(filtered_carrier_map(StaticOf(n), ComparisonInput(n))) > 0}

\* C10: in Group by Carrier mode, at the original resolution, the columns emitted by
\* the plots pipeline, by each pass of the comparison pipeline and by the overview
\* chart are exactly the carriers whose summed series has a sum of absolute values
\* above 1e-6; every emitted column is above it; removing the components of a
\* carrier at or below it from the matrix leaves the emitted set unchanged.
C10_CarrierFilter ==
    /\ (/\ IsPlot /\ call.aggregation = "Group by Carrier" /\ call.frequency = "Original"
        /\ ret.table = "frame"
        /\ ret.error \in {None, "No data available for the selected options."})
          => /\ EmitsContributing(StaticOf(call.net),
                                  plot_input(networks[call.net], call.component_type,
                                             call.variable, call.subset),
                                  Range(ret.df.columns))
             /\ AllSignificant(ret.df)
    /\ (IsComparison /\ call.aggregation = "Group by Carrier" /\ call.frequency = "Original")
          => /\ \A k \in DOMAIN ret.plot_data_frames : AllSignificant(ret.plot_data_frames[k])
             /\ \A n \in Grouped :
                  LET emitted == {c \in Range(CarrierOrder) :
                                    \E k \in DOMAIN ret.plot_data_frames :
                                        (n \o ": " \o c) \in Range(ret.plot_data_frames[k].columns)}
                  IN  EmitsContributing(StaticOf(n), ComparisonInput(n), emitted)
             /\ \A k \in DOMAIN ret.plot_data_frames :
                  \E n \in Grouped :
                      Range(ret.plot_data_frames[k].columns)
                          = {n \o ": " \o c : c \in Contributing(StaticOf(n), ComparisonInput(n))}
    /\ (/\ IsOverview /\ ret.kpis.num_snapshots > 0
        /\ ~empty(get_pypsa_component_dfs(networks[call.net], "Generator", TRUE, "p")))
          => LET static_df == networks[call.net]["generators"]
                 df == to_instantaneous(networks[call.net]["generators_t"]["p"])
             IN  /\ EmitsContributing(static_df, df, Range(ret.carrier_chart.df.columns))
                 /\ AllSignificant(ret.carrier_chart.df)
                 /\ ret.carrier_chart.shown <=> Contributing(static_df, df) # {}

\* process_and_plot_data has emitted gas alone: wind's summed series lies exactly at
\* the epsilon.
C10_Witness ==
    /\ IsPlot /\ call.net = "A" /\ call.aggregation = "Group by Carrier"
    /\ call.frequency = "Original" /\ call.subset = <<>> /\ ret.fig
    /\ ret.df.columns = <<"gas">>
    /\ CarrierAbsSum(StaticOf("A"), plot_input(networks["A"], "Generator", "p", <<>>), "wind")
          = CarrierEpsilon

(***************************************************************************)
(* The scenario networks: network A has the generators g1 (gas) and g2     *)
(* (wind) over three hourly snapshots, each with one of ScenarioSeries as  *)
(* its p series; network B is the reference network.                       *)
(***************************************************************************)
ScenarioSeries == {<<0, 10, 25>>, <<5, 10, 25>>, <<0, 0, 0>>, <<10, 10, 10>>, <<25, 10, 0>>}

ScenarioIndex == <<0, HalfHoursPerHour, 2 * HalfHoursPerHour>>

ScenarioNetwork(s1, s2) ==
    PlotNetwork(GeneratorTable(<<"g1", "g2">>, CarrierOf, MarginalCostOf, PNomOf),
                ScenarioIndex, [r \in DOMAIN ScenarioIndex |-> <<s1[r], s2[r]>>])

InitScenario ==
    /\ networks \in {[A |-> ScenarioNetwork(s1, s2), B |-> ReferenceNetwork] :
                        s1 \in ScenarioSeries, s2 \in ScenarioSeries}
    /\ cache = NoCache
    /\ call = NoCall
    /\ ret = NoCall
    /\ session = NoSession
    /\ files = {}

SpecScenario == InitScenario /\ [][NextPlots]_vars

\* A cumulative series that grows: never negative, never decreasing, last above first.
IsCumulativeSeries(s) ==
    /\ \A i \in DOMAIN s : s[i] >= 0
    /\ \A i \in 2..Len(s) : s[i] >= s[i - 1]
    /\ Len(s) > 1 /\ s[Len(s)] > s[1]

\* The per-snapshot values of cumulative series s: 0, then the growth since the previous snapshot.
Instantaneous(s) == [i \in DOMAIN s |-> IF i = 1 THEN 0 ELSE s[i] - s[i - 1]]

ScenarioP == networks["A"]["generators_t"]["p"]

\* The c-th column of a matrix, as a sequence over the rows.
ColumnAt(df, c) == [r \in DOMAIN df.data |-> df.data[r][c]]

ScenarioCase ==
    /\ call.component_type = "Generator" /\ call.variable = "p"
    /\ call.subset = <<>> /\ call.frequency = "Original"
    /\ \A c \in DOMAIN ScenarioP.columns : IsCumulativeSeries(ColumnAt(ScenarioP, c))

\* df holds, under the names of labels, the instantaneous series of the scenario's generators.
IsInstantaneousOfScenario(df, labels) ==
    /\ df.columns = labels
    /\ \A c \in DOMAIN ScenarioP.columns :
          ColumnAt(df, c) = Instantaneous(ColumnAt(ScenarioP, c))

\* df holds at each snapshot the sum over both generators of the instantaneous values.
IsTotalOfScenario(df) ==
    /\ Len(df.columns) = 1
    /\ ColumnAt(df, 1) = [r \in DOMAIN ScenarioP.data |->
                             SeqSum([c \in DOMAIN ScenarioP.columns |->
                                        Instantaneous(ColumnAt(ScenarioP, c))[r]])]

\* C8 (as claimed): when g1 and g2 of network A report growing cumulative p series
\* (such as [0,10,25]), process_and_plot_data and the comparison pass over A both
\* produce the instantaneous series ([0,10,15]) per generator, and in Total Sum
\* mode the sum of the instantaneous values of both generators at each snapshot.
C8_ScenarioInstantaneous ==
    /\ (IsPlot /\ call.net = "A" /\ ScenarioCase)
          => /\ ret.fig
             /\ call.aggregation = "Per Component"
                   => IsInstantaneousOfScenario(ret.df, <<"g1", "g2">>)
             /\ call.aggregation = "Total Sum" => IsTotalOfScenario(ret.df)
    /\ (IsComparison /\ "A" \in Range(call.selected) /\ ScenarioCase)
          => \E k \in DOMAIN ret.plot_data_frames :
                /\ call.aggregation = "Per Component"
                      => IsInstantaneousOfScenario(ret.plot_data_frames[k], <<"A: g1", "A: g2">>)
                /\ call.aggregation = "Total Sum"
                      => /\ ret.plot_data_frames[k].columns = <<"A: Total p">>
                         /\ IsTotalOfScenario(ret.plot_data_frames[k])
                /\ call.aggregation = "Group by Carrier"
                      => ret.plot_data_frames[k].columns = <<"A: gas", "A: wind">>

(***************************************************************************)
(* The cache specification: the four decorated functions called, in any    *)
(* order, for two loaded networks; what is stored stays stored.  Network A *)
(* has two snapshots and any matrix of CacheValues for g1 and g2.          *)
(***************************************************************************)
CacheValues == {0, 1}

CacheIndex == <<0, HalfHoursPerDay>>

CacheNets ==
    {PlotNetwork(t, CacheIndex, p) :
        t \in PlotGeneratorTables, p \in [DOMAIN CacheIndex -> [1..2 -> CacheValues]]}

CacheRequests ==
    {<<"Generator", "p", <<>>, "Total Sum", "Original">>,
     <<"Generator", "p", <<>>, "Group by Carrier", "Original">>,
     <<"Load", "p", <<>>, "Per Component", "Original">>}

InitCache ==
    /\ networks \in {[A |-> net, B |-> ReferenceNetwork] : net \in CacheNets}
    /\ cache = NoCache
    /\ call = NoCall
    /\ ret = NoCall
    /\ session = NoSession
    /\ files = {}

NextCache ==
    \/ \E n \in DOMAIN networks, q \in CacheRequests :
          ProcessAndPlot(n, q[1], q[2], q[3], q[4], q[5])
    \/ \E n \in DOMAIN networks : DiscoverTimeseriesComponents(n)
    \/ \E n \in DOMAIN networks : GetAvailableTsVariables(n)
    \/ \E n \in DOMAIN networks : CalculateCarrierMarginalCosts(n)
    \/ EndRun

SpecCache == InitCache /\ [][NextCache]_vars

\* C1 (as claimed): what a call of one of the four decorated functions returns is
\* what the function's body computes on the network passed in that call, whether or
\* not the value came from the cache.
C1_CacheEqualsRecomputation ==
    /\ call.fn = "process_and_plot_data"
          => ret = process_and_plot_data(networks[call.net], call.component_type,
                                         call.variable, call.subset, call.aggregation,
                                         call.frequency)
    /\ call.fn = "discover_timeseries_components"
          => ret = discover_timeseries_components(networks[call.net])
    /\ call.fn = "_get_available_ts_variables_for_network"
          => ret = _get_available_ts_variables_for_network(networks[call.net])
    /\ call.fn = "_calculate_carrier_marginal_costs"
          => ret = _calculate_carrier_marginal_costs(networks[call.net])

(***************************************************************************)
(* Usage errors and the subset filter.                                     *)
(***************************************************************************)
\* The static table of the requested kind in network n has no carrier column.
NoCarrierColumn(n) == "carrier" \notin Range(StaticOf(n).columns)

\* The request names no subset, or one of which a column of network n's matrix survives.
SubsetSurvives(n) ==
    Len(call.subset) = 0 \/ Len(valid_subset(call.subset, RawMatrix(n))) > 0

CannotGroupPlot ==
    "Cannot group by carrier: '" \o call.component_type
        \o "' components do not have a 'carrier' attribute."

CannotGroupComparison(n) ==
    "Cannot group by carrier: '" \o call.component_type \o "' components in network '"
        \o n \o "' do not have a 'carrier' attribute."

\* C11 (as claimed): a Group by Carrier request for a kind whose static table has no
\* carrier column, on a matrix that exists (and a subset that survives), ends in the
\* "Cannot group by carrier" message and no table: process_and_plot_data returns
\* (None, None, message), and the comparison loop reports the message for the network
\* and keeps no table of it.
C11_NoCarrierIsUsageError ==
    /\ (/\ IsPlot /\ call.aggregation = "Group by Carrier" /\ NoCarrierColumn(call.net)
        /\ ~empty(RawMatrix(call.net)) /\ SubsetSurvives(call.net))
          => (ret.table = None /\ ~ret.fig /\ ret.error = CannotGroupPlot)
    /\ (/\ IsComparison /\ call.aggregation = "Group by Carrier"
        /\ \A n \in Range(call.selected) : NoCarrierColumn(n))
          => /\ Len(ret.plot_data_frames) = 0
             /\ ret.shown = "info"
             /\ \A n \in Aggregated : CannotGroupComparison(n) \in Range(ret.errors_encountered)

\* No column of network n's matrix is named in the request's (non-empty) subset.
NoSurvivor(n) ==
    /\ Len(call.subset) > 0
    /\ ~empty(RawMatrix(n))
    /\ Range(call.subset) \cap Range(RawMatrix(n).columns) = {}

\* The sum of row r of df over the columns named in the request's subset.
FilteredRowSum(df, r) ==
    SeqSum([c \in DOMAIN df.columns |->
               IF df.columns[c] \in Range(call.subset) THEN df.data[r][c] ELSE 0])

\* The differenced matrix of the comparison pass over network n, before the subset.
ComparisonInstantaneous(n) ==
    IF call.variable = "p"
    THEN clip_lower0(to_instantaneous(RawMatrix(n)))
    ELSE to_instantaneous(RawMatrix(n))

\* df has one column, holding for every row of whole the sum over the subset's columns.
IsFilteredTotal(df, whole) ==
    /\ Len(df.columns) = 1
    /\ Len(df.data) = Len(whole.data)
    /\ \A r \in DOMAIN whole.data : df.data[r] = <<FilteredRowSum(whole, r)>>

\* C12: a non-empty subset is applied before the aggregation (per component, only
\* the named columns that exist appear; the total is the sum over those columns
\* alone), and a subset none of whose ids is a column ends in a reported error with
\* no aggregated output: process_and_plot_data returns a message, no figure and no
\* rows; the comparison loop reports "No data for selected subset" for the network
\* and keeps no table of it.
C12_SubsetBeforeAggregation ==
    /\ (IsPlot /\ NoSurvivor(call.net))
          => (ret.error # None /\ ~ret.fig /\ empty(ret.df))
    /\ (IsPlot /\ Len(call.subset) > 0 /\ ret.fig /\ call.frequency = "Original")
          => /\ call.aggregation = "Per Component"
                   => Range(ret.df.columns)
                         = Range(call.subset) \cap Range(RawMatrix(call.net).columns)
             /\ call.aggregation = "Total Sum"
                   => IsFilteredTotal(ret.df, plot_instantaneous(RawMatrix(call.net)))
    /\ IsComparison
          => /\ \A n \in Range(call.selected) :
                  NoSurvivor(n)
                     => ("No data for selected subset in network '" \o n \o "'.")
                            \in Range(ret.errors_encountered)
             /\ (\A n \in Range(call.selected) : empty(RawMatrix(n)) \/ NoSurvivor(n))
                     => (Len(ret.plot_data_frames) = 0 /\ ret.shown = "info")
             /\ (Len(call.subset) > 0 /\ call.frequency = "Original")
                     => \A n \in Aggregated :
                          /\ call.aggregation = "Per Component"
                                => \E k \in DOMAIN ret.plot_data_frames :
                                      Range(ret.plot_data_frames[k].columns)
                                         = {n \o ": " \o g :
                                              g \in Range(call.subset)
                                                      \cap Range(RawMatrix(n).columns)}
                          /\ call.aggregation = "Total Sum"
                                => \E k \in DOMAIN ret.plot_data_frames :
                                      /\ ret.plot_data_frames[k].columns
                                            = <<n \o ": Total " \o call.variable>>
                                      /\ IsFilteredTotal(ret.plot_data_frames[k],
                                                         ComparisonInstantaneous(n))

\* process_and_plot_data has refused a subset (g3) that names no generator of A.
C12_Witness ==
    /\ IsPlot /\ call.net = "A" /\ NoSurvivor("A")
    /\ ret.error = "Selected subset is not available in the data."
    /\ ret.table = None

\* The total of the subset g1 alone, returned for a matrix whose g2 is not zero.
C12_WitnessFiltered ==
    /\ IsPlot /\ call.net = "A" /\ call.subset = <<"g1">> /\ call.aggregation = "Total Sum"
    /\ call.frequency = "Original" /\ ret.fig
    /\ \E r \in DOMAIN RawMatrix("A").data : RawMatrix("A").data[r][2] # 0

(***************************************************************************)
(* Resampling.                                                             *)
(***************************************************************************)
\* The aggregation of matrix df of network n in the requested mode: the table that
\* enters the resampling step.
AggregatedTable(n, df) ==
    IF call.aggregation = "Per Component" THEN df
    ELSE IF call.aggregation = "Total Sum" THEN total_sum(df, call.variable)
    ELSE significant_columns(
             group_by_carrier(df, StaticOf(n), filtered_carrier_map(StaticOf(n), df)))

\* out has the index of entered and, cell by cell, its values (plain numbers, no
\* means of bins).
SameIndexAndValues(out, entered) ==
    /\ out.index = entered.index
    /\ Len(out.data) = Len(entered.data)
    /\ \A r \in DOMAIN entered.data :
          /\ Len(out.data[r]) = Len(entered.data[r])
          /\ \A c \in DOMAIN entered.data[r] :
                ToString(out.data[r][c]) = ToString(entered.data[r][c])

\* The passes of the comparison loop that hand a table to the resampling step.
Resampled ==
    IF call.aggregation = "Group by Carrier"
    THEN {n \in Grouped : Contributing(StaticOf(n), ComparisonInput(n)) # {}}
    ELSE Aggregated

\* C13: with frequency "Original" the table process_and_plot_data returns, and every
\* table the comparison loop keeps, has the index and the values of the aggregated
\* table that entered the resampling step.
C13_OriginalIsIdentity ==
    /\ (/\ IsPlot /\ call.frequency = "Original" /\ ret.table = "frame"
        /\ ret.error \in {None, "No data available for the selected options."})
          => LET entered == AggregatedTable(call.net,
                                plot_input(networks[call.net], call.component_type,
                                           call.variable, call.subset))
             IN  SameIndexAndValues(ret.df, entered) /\ ret.df.columns = entered.columns
    /\ (IsComparison /\ call.frequency = "Original")
          => /\ Len(ret.plot_data_frames) = Cardinality(Resampled)
             /\ \A n \in Resampled :
                  LET entered == AggregatedTable(n, ComparisonInput(n))
                  IN  \E k \in DOMAIN ret.plot_data_frames :
                         /\ ret.plot_data_frames[k].columns
                               = [c \in DOMAIN entered.columns |-> n \o ": " \o entered.columns[c]]
                         /\ SameIndexAndValues(ret.plot_data_frames[k], entered)

\* process_and_plot_data has returned, at the original resolution, a per-component
\* table over two snapshots that fall on one day.
C13_Witness ==
    /\ IsPlot /\ call.net = "A" /\ call.frequency = "Original" /\ ret.fig
    /\ call.aggregation = "Per Component" /\ call.subset = <<>>
    /\ ret.df.index = <<Stamp(1), Stamp(2)>>
    /\ Stamp(2) < HalfHoursPerDay
    /\ ret.df.data[1] # ret.df.data[2]

(***************************************************************************)
(* The KPI specification: _get_network_kpis called for a network whose     *)
(* objective is a number of KpiObjectives, NaN, another object or absent,  *)
(* and whose generators g1, g2 report any matrix of KpiValues over the     *)
(* snapshots of PlotIndexes (or have no generators_t at all).              *)
(***************************************************************************)
KpiObjectives == {-500, -1, 0, 1, 500}

KpiValues == {-1, 0, 2}

Objectives ==
    {[type |-> "number", v |-> v] : v \in KpiObjectives}
    \cup {[type |-> "nan", v |-> 0], [type |-> "other", v |-> 0]}

KpiNetwork(index, p, objective) ==
    [PlotNetwork(GeneratorTable(<<"g1", "g2">>, CarrierOf, MarginalCostOf, PNomOf), index, p)
        EXCEPT !["objective"] = objective]

KpiNets ==
    LET whole == UNION {{KpiNetwork(i, p, o) : p \in [DOMAIN i -> [1..2 -> KpiValues]]} :
                        i \in PlotIndexes, o \in Objectives}
    IN  whole
        \cup {WithoutAttributes(net, {"objective"}) : net \in whole}
        \cup {WithoutAttributes(net, {"generators_t"}) : net \in whole}

\* A call of _get_network_kpis for a loaded network.
GetNetworkKpis(n) ==
    /\ Idle
    /\ call' = [fn |-> "_get_network_kpis", net |-> n]
    /\ ret' = _get_network_kpis(networks[n])
    /\ UNCHANGED <<networks, cache, session, files>>

InitKpi ==
    /\ networks \in {[N |-> net] : net \in KpiNets}
    /\ cache = NoCache
    /\ call = NoCall
    /\ ret = NoCall
    /\ session = NoSession
    /\ files = {}

NextKpi ==
    \/ \E n \in DOMAIN networks : GetNetworkKpis(n)
    \/ EndRun

SpecKpi == InitKpi /\ [][NextKpi]_vars

IsKpi == call.fn = "_get_network_kpis"

\* The objective of the network of the call is a number (not NaN, not absent).
HasNumericObjective ==
    /\ "objective" \in DOMAIN networks[call.net]
    /\ networks[call.net]["objective"].type = "number"

\* C14: the system cost of _get_network_kpis is one of three outcomes: a number below
\* zero gives cost 0 with the flag set; a number at or above zero gives that number
\* with the flag clear; an absent or non-numeric objective gives the unavailable
\* marker NaN, which is not the cost 0, with the flag clear.
C14_SystemCostThreeWay ==
    IsKpi =>
        /\ (HasNumericObjective /\ networks[call.net]["objective"].v < 0)
              => (ret.total_system_cost = Num(0) /\ ret.system_cost_was_negative)
        /\ (HasNumericObjective /\ networks[call.net]["objective"].v >= 0)
              => /\ ret.total_system_cost = Num(networks[call.net]["objective"].v)
                 /\ ~ret.system_cost_was_negative
        /\ ~HasNumericObjective
              => /\ ret.total_system_cost.nan
                 /\ ret.total_system_cost # Num(0)
                 /\ ~ret.system_cost_was_negative

\* The KPIs of a network with objective -500: cost 0, flag set.
C14_Witness ==
    /\ IsKpi /\ HasNumericObjective
    /\ networks[call.net]["objective"].v = -500
    /\ ret.total_system_cost = Num(0) /\ ret.system_cost_was_negative

\* The KPIs of a network without objective: cost unavailable.
C14_WitnessAbsent ==
    /\ IsKpi /\ "objective" \notin DOMAIN networks[call.net]
    /\ ret.total_system_cost = NaN

\* The generator p matrix of the network of the call, empty when there is none.
GeneratorP == get_pypsa_component_dfs(networks[call.net], "Generator", TRUE, "p")

\* Series s as the classifier hands it on: differenced when is_likely_cumulative
\* takes it as cumulative, as it is otherwise; then floored at zero and summed.
ClassifiedGeneration(s) ==
    LET inst == IF is_likely_cumulative(s) THEN Instantaneous(s) ELSE s
    IN  SeqSum([i \in DOMAIN inst |-> Max0(inst[i])])

\* C15 (as claimed): total generation is the sum over the generators of the
\* zero-floored values of the p series as the classifier hands them on, 0 when
\* there is no generator p series, and never negative.
C15_TotalGeneration ==
    IsKpi =>
        /\ ret.total_annual_generation_mwh >= 0
        /\ empty(GeneratorP) => ret.total_annual_generation_mwh = 0
        /\ ~empty(GeneratorP)
              => ret.total_annual_generation_mwh
                    = SeqSum([c \in DOMAIN GeneratorP.columns |->
                                 ClassifiedGeneration(ColumnAt(GeneratorP, c))])

(***************************************************************************)
(* The session specification: every core operation called, in any order,   *)
(* for two loaded networks; the cache stays.  Network A has two snapshots  *)
(* and any matrix of CacheValues as the p and the q of g1 and g2.          *)
(***************************************************************************)
SessionNetwork(p) ==
    [PlotNetwork(GeneratorTable(<<"g1", "g2">>, CarrierOf, MarginalCostOf, PNomOf),
                 CacheIndex, p)
        EXCEPT !["generators_t"] =
                   [@ EXCEPT !["q"] = TsFrame(TRUE, CacheIndex, <<"g1", "g2">>, p)]]

SessionNets == {SessionNetwork(p) : p \in [DOMAIN CacheIndex -> [1..2 -> CacheValues]]}

SessionRequests == {<<"Generator", "p">>, <<"Generator", "q">>}

SessionQueries == {<<"Generator", TRUE, "q">>, <<"Generator", FALSE, NoAttribute>>}

InitSession ==
    /\ networks \in {[A |-> net, B |-> ReferenceNetwork] : net \in SessionNets}
    /\ cache = NoCache
    /\ call = NoCall
    /\ ret = NoCall
    /\ session = NoSession
    /\ files = {}

NextSession ==
    \/ \E n \in DOMAIN networks : GetNetworkKpis(n)
    \/ \E n \in DOMAIN networks, q \in SessionQueries : Query(n, q[1], q[2], q[3])
    \/ \E n \in DOMAIN networks, q \in CacheRequests :
          ProcessAndPlot(n, q[1], q[2], q[3], q[4], q[5])
    \/ \E n \in DOMAIN networks : DiscoverTimeseriesComponents(n)
    \/ \E n \in DOMAIN networks : GetAvailableTsVariables(n)
    \/ \E n \in DOMAIN networks : CalculateCarrierMarginalCosts(n)
    \/ \E selected \in Selections, q \in SessionRequests, aggregation \in Aggregations :
          GenerateComparisonPlot(selected, q[1], q[2], <<>>, aggregation, "Original")
    \/ \E n \in DOMAIN networks : RenderOverview(n)
    \/ EndRun

SpecSession == InitSession /\ [][NextSession]_vars

\* C16: no step of a session changes a loaded network: every static table and every
\* time-series matrix of every network keeps its index, its column names and its
\* values, also across the comparison loop's renaming of the processed table.
C16_NetworksUnchanged == [][networks' = networks]_vars

\* The comparison loop has kept the per-component table of A's q under the prefixed
\* names, and A's own q matrix still has its columns g1, g2.
C16_Witness ==
    /\ IsComparison /\ call.variable = "q" /\ call.aggregation = "Per Component"
    /\ call.selected = <<"A">>
    /\ Len(ret.plot_data_frames) = 1
    /\ ret.plot_data_frames[1].columns = <<"A: g1", "A: g2">>
    /\ networks["A"]["generators_t"]["q"].columns = <<"g1", "g2">>

(***************************************************************************)
(* The combining specification: the comparison handler run on two networks *)
(* whose snapshots are any one to MaxCombineSnapshots distinct timestamps  *)
(* of CombineStamps, in any order: equal, overlapping or disjoint ranges.  *)
(* g1 reports the cumulative 1, 4, 9, ... and g2 the constant 2.           *)
(***************************************************************************)
CombineStamps == {0, 2, 4, 6}

CombineIndexes ==
    {i \in InjSeqs(CombineStamps, MaxCombineSnapshots) : Len(i) > 0}

CombineNetwork(index) ==
    PlotNetwork(GeneratorTable(<<"g1", "g2">>, CarrierOf, MarginalCostOf, PNomOf),
                index, [r \in DOMAIN index |-> <<r * r, 2>>])

InitCombine ==
    /\ networks \in {[A |-> CombineNetwork(i), B |-> CombineNetwork(j)] :
                        i \in CombineIndexes, j \in CombineIndexes}
    /\ cache = NoCache
    /\ call = NoCall
    /\ ret = NoCall
    /\ session = NoSession
    /\ files = {}

NextCombine ==
    \/ \E selected \in Selections, aggregation \in {"Per Component", "Total Sum"},
          frequency \in {"Original", "Hourly"} :
            GenerateComparisonPlot(selected, "Generator", "p", <<>>, aggregation, frequency)
    \/ EndRun

SpecCombine == InitCombine /\ [][NextCombine]_vars

\* The timestamps of all the tables the loop has kept.
AllTimestamps == UNION {Range(ret.plot_data_frames[k].index) : k \in DOMAIN ret.plot_data_frames}

\* The k-th kept table and the position of its first column in the combined table.
ColumnOffset(k) ==
    IF k = 1 THEN 0 ELSE Len(ret.plot_data_frames[1].columns)

\* C17: the combined table's index is the union of the timestamps of the kept
\* tables in ascending order; its columns are the tables' prefixed columns; a cell
\* holds the table's value where the table has a row at the timestamp and a gap
\* (missing, not 0) where it has none; two tables with disjoint timestamps give as
\* many rows as both have together.
C17_CombinedIsOuterJoin ==
    (IsComparison /\ ret.combined = "frame")
        => LET frames == ret.plot_data_frames
               df == ret.combined_df
           IN  /\ Range(df.index) = AllTimestamps
               /\ IsStrictlyIncreasing(df.index)
               /\ Len(df.data) = Len(df.index)
               /\ Len(df.columns)
                     = SeqSum([k \in DOMAIN frames |-> Len(frames[k].columns)])
               /\ \A k \in DOMAIN frames : \A c \in DOMAIN frames[k].columns :
                     /\ df.columns[ColumnOffset(k) + c] = frames[k].columns[c]
                     /\ frames[k].columns[c]
                           \in {n \o ": " \o g : n \in Range(call.selected),
                                                g \in {"g1", "g2", "Total p"}}
                     /\ \A r \in DOMAIN df.index :
                          LET cell == df.data[r][ColumnOffset(k) + c]
                          IN  IF df.index[r] \in Range(frames[k].index)
                              THEN cell = Num(frames[k].data[PosOf(frames[k].index,
                                                                   df.index[r])][c])
                              ELSE cell.nan /\ cell # Num(0)
               /\ (/\ Len(frames) = 2
                   /\ Range(frames[1].index) \cap Range(frames[2].index) = {})
                     => Len(df.index) = Cardinality(Range(frames[1].index))
                                           + Cardinality(Range(frames[2].index))

\* Two tables with disjoint timestamps, A's later than B's, have been combined at the
\* original resolution: four rows, each with a gap.
C17_Witness ==
    /\ IsComparison /\ ret.combined = "frame" /\ call.frequency = "Original"
    /\ call.selected = <<"A", "B">> /\ call.aggregation = "Per Component"
    /\ Len(ret.plot_data_frames) = 2
    /\ ret.plot_data_frames[1].index = <<6, 4>>
    /\ ret.plot_data_frames[2].index = <<0, 2>>
    /\ ret.combined_df.index = <<0, 2, 4, 6>>
    /\ \A r \in 1..4 : \E c \in 1..4 : ret.combined_df.data[r][c].nan

(***************************************************************************)
(* The naming specification: the comparison handler run on two networks    *)
(* whose names (the names of the uploaded files, data_loader.py:83-89) and *)
(* whose generator ids are any strings of PrefixNames and PrefixIds, some  *)
(* of which contain the separator ": ".                                    *)
(***************************************************************************)
PrefixNames == {"A", "B", "A: B"}
PrefixIds == {"g1", "B: g1"}
PrefixIndex == <<0, 2>>

PrefixNetwork(ids) ==
    [BaseNetwork(PrefixIndex) EXCEPT
        !["generators"] = GeneratorTable(ids, [g \in PrefixIds |-> "gas"],
                                         [g \in PrefixIds |-> 1], [g \in PrefixIds |-> 1]),
        !["generators_t"] =
            [@ EXCEPT !["p"] = TsFrame(TRUE, PrefixIndex, ids,
                                       [r \in DOMAIN PrefixIndex |->
                                           [c \in DOMAIN ids |-> r * c]])]]

PrefixGenerators == {ids \in InjSeqs(PrefixIds, 2) : Len(ids) > 0}

InitPrefix ==
    /\ networks \in UNION {[names -> {PrefixNetwork(i) : i \in PrefixGenerators}] :
                               names \in {x \in SUBSET PrefixNames : Cardinality(x) = 2}}
    /\ cache = NoCache
    /\ call = NoCall
    /\ ret = NoCall
    /\ session = NoSession
    /\ files = {}

NextPrefix ==
    \/ \E selected \in {x \in InjSeqs(DOMAIN networks, 2) : Len(x) > 0},
          aggregation \in {"Per Component", "Total Sum"} :
            GenerateComparisonPlot(selected, "Generator", "p", <<>>, aggregation, "Original")
    \/ EndRun

SpecPrefix == InitPrefix /\ [][NextPrefix]_vars

\* C18: the column names of the combined table are pairwise distinct, whatever the
\* (pairwise distinct) network names and the component ids are, also when they
\* contain the separator.
C18_ColumnNamesDistinct ==
    (IsComparison /\ ret.combined = "frame")
        => \A i, j \in DOMAIN ret.combined_df.columns :
              i # j => ret.combined_df.columns[i] # ret.combined_df.columns[j]

(***************************************************************************)
(* The discovery specification: two networks, each with any subset of five *)
(* matrices (one per component kind) holding one component over two        *)
(* snapshots; every other matrix has no column.                            *)
(***************************************************************************)
DiscoveryPairs ==
    {<<"generators_t", "p">>, <<"loads_t", "p">>, <<"lines_t", "p0">>,
     <<"storage_units_t", "state_of_charge">>, <<"buses_t", "marginal_price">>}

DiscoveryIndex == <<0, 2>>

DiscoveryNetwork(has) ==
    LET base == BaseNetwork(DiscoveryIndex)
    IN  [a \in DOMAIN base |->
            IF a \in DOMAIN TsVariables
            THEN [v \in TsVariables[a] |->
                    IF <<a, v>> \in has
                    THEN TsFrame(TRUE, DiscoveryIndex, <<"x1">>, <<<<1>>, <<2>>>>)
                    ELSE base[a][v]]
            ELSE base[a]]

DiscoveryNets == {DiscoveryNetwork(has) : has \in SUBSET DiscoveryPairs}

InitDiscovery ==
    /\ networks \in [{"A", "B"} -> DiscoveryNets]
    /\ cache = NoCache
    /\ call = NoCall
    /\ ret = NoCall
    /\ session = NoSession
    /\ files = {}

NextDiscovery ==
    \/ \E selected \in Selections : DiscoverAcrossNetworks(selected)
    \/ \E n \in DOMAIN networks : DiscoverTimeseriesComponents(n)
    \/ EndRun

SpecDiscovery == InitDiscovery /\ [][NextDiscovery]_vars

IsDiscovery == call.fn = "all_available_components"

\* Network n has data for variable v of the kind.
HasData(n, kind, v) == ~empty(get_pypsa_component_dfs(networks[n], kind, TRUE, v))

\* C19: the discovery over the selected networks lists a (kind, variable) pair if and
\* only if at least one of the selected networks has data for it.
C19_DiscoveryIsUnion ==
    IsDiscovery
        => \A kind \in Range(component_names), v \in Range(common_ts_variables) :
              (kind \in DOMAIN ret.available /\ v \in ret.available[kind])
                 <=> \E n \in Range(call.selected) : HasData(n, kind, v)

(***************************************************************************)
(* The cost specification: network A has the generator columns g1, g2 over *)
(* every matrix of CostValues at two snapshots, and a generator table that *)
(* names both or g1 alone; network B is the reference network.             *)
(***************************************************************************)
CostValues == {0, 1, 3}

CostNets ==
    {PlotNetwork(t, CacheIndex, p) :
        t \in PlotGeneratorTables, p \in [DOMAIN CacheIndex -> [1..2 -> CostValues]]}

InitCosts ==
    /\ networks \in {[A |-> net, B |-> ReferenceNetwork] : net \in CostNets}
    /\ cache = NoCache
    /\ call = NoCall
    /\ ret = NoCall
    /\ session = NoSession
    /\ files = {}

NextCosts ==
    \/ \E n \in DOMAIN networks : CalculateCarrierMarginalCosts(n)
    \/ EndRun

SpecCosts == InitCosts /\ [][NextCosts]_vars

IsCosts == call.fn = "_calculate_carrier_marginal_costs"

\* The zero-floored sum, over the generators of carrier c that report p and over the
\* snapshots, of instantaneous power times the generator's marginal cost.
CarrierCost(network, c) ==
    LET generators == network["generators"]
        p == get_pypsa_component_dfs(network, "Generator", TRUE, "p")
        inst == clip_lower0(to_instantaneous(p))
    IN  Max0(SeqSum([j \in DOMAIN p.columns |->
                        IF /\ p.columns[j] \in Range(generators.index)
                           /\ generators.data["carrier"][p.columns[j]] = c
                        THEN SeqSum(Column(inst, p.columns[j]))
                                * generators.data["marginal_cost"][p.columns[j]]
                        ELSE 0]))

CarriersOf(network) ==
    {network["generators"].data["carrier"][g] : g \in Range(network["generators"].index)}

\* The cost a returned series reports for carrier c: 0 for a carrier it leaves out.
ReportedCost(series, c) == IF c \in DOMAIN series THEN series[c] ELSE 0

\* C20: a call for a network whose generator p matrix has columns returns without
\* raising, whether or not every column is a row of the generator table; every
\* returned value is non-negative and is, for each carrier of the network, the
\* zero-floored sum of instantaneous power times marginal cost.
C20_CarrierMarginalCosts ==
    IsCosts
        => /\ Len(get_pypsa_component_dfs(networks[call.net], "Generator", TRUE, "p").columns) > 0
                 => ~ret.raised
           /\ \A c \in DOMAIN ret.series : ret.series[c] >= 0
           /\ ~ret.raised
                 => \A c \in CarriersOf(networks[call.net]) :
                       ReportedCost(ret.series, c) = CarrierCost(networks[call.net], c)

(***************************************************************************)
(* The clipping specification: network A reports, for the generators g1    *)
(* and g2, the same matrix of ClipValues at two snapshots as p and as q;   *)
(* network B is the reference network.  Both pipelines run per component   *)
(* at the original resolution.                                             *)
(***************************************************************************)
ClipValues == {-1, 0, 2}

ClipNets == {SessionNetwork(p) : p \in [DOMAIN CacheIndex -> [1..2 -> ClipValues]]}

InitClip ==
    /\ networks \in {[A |-> net, B |-> ReferenceNetwork] : net \in ClipNets}
    /\ cache = NoCache
    /\ call = NoCall
    /\ ret = NoCall
    /\ session = NoSession
    /\ files = {}

NextClip ==
    \/ \E n \in DOMAIN networks, q \in SessionRequests :
          ProcessAndPlot(n, q[1], q[2], <<>>, "Per Component", "Original")
    \/ \E selected \in Selections, q \in SessionRequests :
          GenerateComparisonPlot(selected, q[1], q[2], <<>>, "Per Component", "Original")
    \/ Restart

SpecClip == InitClip /\ [][NextClip]_vars

\* The first difference of column c of raw at row r, 0 at the first row.
DifferenceAt(raw, r, c) == IF r = 1 THEN 0 ELSE raw.data[r][c] - raw.data[r - 1][c]

C21_WitnessPlot ==
    /\ IsPlot /\ ret.fig /\ call.net = "A" /\ call.variable = "p"
    /\ RawMatrix("A").data = <<<<2, 0>>, <<0, 0>>>>
    /\ ret.df.data = <<<<0, 0>>, <<-2, 0>>>>

\* The comparison of variable p has floored a negative difference of network A.
C21_WitnessClipped ==
    /\ IsComparison /\ call.variable = "p" /\ call.selected = <<"A">>
    /\ RawMatrix("A").data = <<<<2, 0>>, <<-1, 2>>>>
    /\ ret.plot_data_frames[1].data[2] = <<0, 2>>

(***************************************************************************)
(* Loading (components/data_loader.py), the listing of the comparison tab  *)
(* (components/comparison_tab.py:32-65) and the script run (app.py).       *)
(* A file's name stands for its content; an upload is [name, id], id being *)
(* the file_id Streamlit gives to each upload.                             *)
(***************************************************************************)
AppFiles == {"a.nc", "b.nc", "bad.nc"}

\* pypsa.Network(path) returns a network for these files and raises for any other.
Readable == {"a.nc", "b.nc"}

NetworkOfFile(f) == IF f = "a.nc" THEN ReferenceNetwork ELSE BaseNetwork(<<0>>)

\* What the disk does during a load: NamedTemporaryFile raises, write raises, or
\* both succeed.
Disk == {"ok", "create_fails", "write_fails"}

\* Lines 20-35, the body of load_pypsa_network.  fs: the temporary files on the disk.
\* temp: the file NamedTemporaryFile creates (delete=False), 0 when it creates none;
\* temp_file_path is assigned after the write, so it is still None (0) when the write
\* raises.
load_body(file, disk, fs) ==
    LET temp == IF disk = "create_fails" THEN 0 ELSE Cardinality(fs) + 1
        created == IF temp = 0 THEN fs ELSE fs \cup {temp}
        temp_file_path == IF disk = "ok" THEN temp ELSE 0
        raised == disk # "ok" \/ file \notin Readable
    IN  [network |-> IF raised THEN NoneObject ELSE NetworkOfFile(file),
         file_error |-> raised,
         temp |-> temp,
         files |-> IF temp_file_path # 0 /\ temp_file_path \in created
                   THEN created \ {temp_file_path}
                   ELSE created]

\* The member of a set of one element: TheOne({e(x) : x \in {v}}) is e(v), with v
\* computed once.
TheOne(S) == CHOOSE x \in S : TRUE

\* A call of load_pypsa_network(file_content, file_hash) under st.cache_resource:
\* the stored object (None included) when the key has one, else the body's result,
\* which is stored.  st: [cache, files, file_error, log, result].
load_pypsa_network(st, upload, disk) ==
    LET key == <<upload.name, upload.id>>
    IN  IF \E entry \in st.cache : entry.key = key
        THEN [st EXCEPT !.result = (CHOOSE entry \in st.cache : entry.key = key).value,
                        !.log = Append(@, [key |-> key, hit |-> TRUE, disk |-> "unused",
                                            temp |-> 0])]
        ELSE TheOne({[cache |-> st.cache \cup {[key |-> key, value |-> body.network]},
                      files |-> body.files,
                      file_error |-> body.file_error,
                      log |-> Append(st.log, [key |-> key, hit |-> FALSE, disk |-> disk,
                                              temp |-> body.temp]),
                      result |-> body.network] :
                         body \in {load_body(upload.name, disk, st.files)}})

\* Lines 37-65: the main widget's file loaded, or None.
render_file_uploader(st, uploaded_file, disk) ==
    IF ~is_none(uploaded_file)
    THEN load_pypsa_network(st, uploaded_file, disk)
    ELSE [st EXCEPT !.result = NoneObject]

\* A plausible slip: the loaded object stored without the test `if network_obj`.
store_loaded_unchecked(loaded_networks, name, network_obj) ==
    (name :> network_obj) @@ loaded_networks

\* Lines 88-89: if network_obj: loaded_networks[uf.name] = network_obj
store_loaded(loaded_networks, name, network_obj) ==
    IF ~is_none(network_obj)
    THEN (name :> network_obj) @@ loaded_networks
    ELSE loaded_networks

\* Lines 81-89: the loop over the comparison widget's files.
RECURSIVE load_uploaded(_, _, _, _)
load_uploaded(st, loaded_networks, uploaded_files, disk) ==
    IF Len(uploaded_files) = 0
    THEN [st |-> st, loaded_networks |-> loaded_networks]
    ELSE LET uf == Head(uploaded_files)
         IN  IF uf.name \notin DOMAIN loaded_networks
             THEN TheOne({load_uploaded(after,
                                        store_loaded(loaded_networks, uf.name, after.result),
                                        Tail(uploaded_files), disk) :
                             after \in {load_pypsa_network(st, uf, disk)}})
             ELSE load_uploaded(st, loaded_networks, Tail(uploaded_files), disk)

\* One script run of app.py with the widgets as they are in s: the main widget's file
\* is loaded (lines 39-44), the result tabs are rendered for a network that is not
\* None (line 46), then the comparison widget's files are loaded and stored.
script_run(s, comparison_networks, loader_cache, fs, disk) ==
    LET st0 == [cache |-> loader_cache, files |-> fs, file_error |-> s.file_error,
                log |-> <<>>, result |-> NoneObject]
        shown(st1, compared) ==
            LET main_network == st1.result
                main_network_error == is_none(main_network) /\ st1.file_error
                tabs == ~is_none(main_network) /\ ~main_network_error
            IN  [session |-> [s EXCEPT !.main_network = main_network,
                                       !.main_network_error = main_network_error,
                                       !.file_error = compared.st.file_error],
                 networks |-> compared.loaded_networks,
                 cache |-> compared.st.cache,
                 files |-> compared.st.files,
                 ret |-> [tabs_rendered |-> tabs,
                          tabs_network |-> IF tabs THEN main_network ELSE NoneObject,
                          loads |-> compared.st.log]]
    IN  TheOne({TheOne({shown(st1, compared) :
                           compared \in {load_uploaded(st1, comparison_networks,
                                                       s.comparison_uploader, disk)}}) :
                   st1 \in {render_file_uploader(st0, s.main_uploader, disk)}})

\* A script run after the user's interaction has left the widgets as in s.
Run(s, event, disk) ==
    \E run \in {script_run(s, networks, cache["load_pypsa_network"], files, disk)} :
        /\ call' = [fn |-> "script_run", event |-> event]
        /\ ret' = run.ret
        /\ session' = run.session
        /\ networks' = run.networks
        /\ cache' = [cache EXCEPT !["load_pypsa_network"] = run.cache]
        /\ files' = run.files

\* The disk can fail by leaving a file only while the bound on such files allows.
DiskAllowed(disk) == disk = "write_fails" => Cardinality(files) < MaxTempFiles

UploadedNames == {session.comparison_uploader[i].name : i \in DOMAIN session.comparison_uploader}

\* The user puts a file into the main widget.
UploadMain(f, disk) ==
    /\ Idle /\ session.uploads < MaxUploads /\ DiskAllowed(disk)
    /\ Run([session EXCEPT !.main_uploader = [name |-> f, id |-> session.uploads + 1],
                           !.uploads = @ + 1], "upload_main", disk)

\* The user takes the file out of the main widget.
ClearMain ==
    /\ Idle /\ ~is_none(session.main_uploader)
    /\ Run([session EXCEPT !.main_uploader = NoneObject], "clear_main", "ok")

\* The user adds a file to the comparison widget.
UploadComparison(f, disk) ==
    /\ Idle /\ session.uploads < MaxUploads /\ DiskAllowed(disk)
    /\ f \notin UploadedNames
    /\ Run([session EXCEPT !.comparison_uploader =
                               Append(@, [name |-> f, id |-> session.uploads + 1]),
                           !.uploads = @ + 1], "upload_comparison", disk)

\* The user takes a file out of the comparison widget.
RemoveComparison(f) ==
    /\ Idle /\ f \in UploadedNames
    /\ Run([session EXCEPT !.comparison_uploader = SelectSeq(@, LAMBDA uf : uf.name # f)],
           "remove_comparison", "ok")

\* Any other interaction: the script runs again with the widgets as they are.
Rerender ==
    /\ Idle
    /\ Run(session, "rerender", "ok")

\* The user presses "Unload <filename>" (comparison_tab.py:57-59): the run loads as
\* every run does, reaches the button in the listing, deletes the entry and asks for
\* an immediate rerun.
PressUnload(filename) ==
    \E run \in {script_run(session, networks, cache["load_pypsa_network"], files, "ok")} :
        /\ Idle
        /\ filename \in DOMAIN networks
        /\ filename \in DOMAIN run.networks
        /\ ~is_none(run.networks[filename])
        /\ call' = [fn |-> "unload", filename |-> filename]
        /\ ret' = run.ret
        /\ session' = run.session
        /\ networks' = [f \in (DOMAIN run.networks) \ {filename} |-> run.networks[f]]
        /\ cache' = [cache EXCEPT !["load_pypsa_network"] = run.cache]
        /\ files' = run.files

\* st.experimental_rerun(): the script runs again at once.
Rerun ==
    /\ call.fn = "unload"
    /\ Run(session, "rerun", "ok")

\* The run is over; the page waits for the next interaction.
EndScriptRun ==
    /\ call.fn = "script_run"
    /\ call' = NoCall
    /\ ret' = NoCall
    /\ UNCHANGED <<networks, cache, session, files>>

AppCache == [load_pypsa_network |-> {}] @@ NoCache

InitApp ==
    /\ networks = <<>>
    /\ cache = AppCache
    /\ call = NoCall
    /\ ret = NoCall
    /\ session = NoSession
    /\ files = {}

NextApp ==
    \/ \E f \in AppFiles, disk \in Disk : UploadMain(f, disk)
    \/ ClearMain
    \/ \E f \in AppFiles, disk \in Disk : UploadComparison(f, disk)
    \/ \E f \in AppFiles : RemoveComparison(f)
    \/ Rerender
    \/ \E f \in AppFiles : PressUnload(f)
    \/ Rerun
    \/ EndScriptRun

SpecApp == InitApp /\ [][NextApp]_vars

IsRun == call.fn \in {"script_run", "unload"}

\* C22: when load_pypsa_network has returned, the temporary file it created does
\* not exist, whether the write or the construction of the network failed or not.
C22_TempFileRemoved ==
    IsRun => \A i \in DOMAIN ret.loads :
                 ret.loads[i].temp # 0 => ret.loads[i].temp \notin files

\* C23: every value of the comparison_networks map is a loaded network, never None,
\* and the result tabs are rendered only with the main network, which is not None.
C23_FailedLoadNeverPresented ==
    /\ \A f \in DOMAIN networks : ~is_none(networks[f]) /\ networks[f] = NetworkOfFile(f)
    /\ (IsRun /\ ret.tabs_rendered)
          => /\ ~is_none(session.main_network)
             /\ ret.tabs_network = session.main_network
             /\ session.main_network = NetworkOfFile(session.main_uploader.name)

\* Loads have failed in both widgets (bad.nc in the comparison widget, a.nc in the main
\* widget on a failing disk) next to a.nc loaded for comparison: the map holds a.nc
\* alone and the result tabs are not rendered.
C23_Witness ==
    /\ IsRun
    /\ UploadedNames = {"a.nc", "bad.nc"}
    /\ DOMAIN networks = {"a.nc"}
    /\ ~is_none(session.main_uploader) /\ session.main_uploader.name = "a.nc"
    /\ is_none(session.main_network)
    /\ ~ret.tabs_rendered

\* C25: the run that follows a press of "Unload <filename>", with the widgets as they
\* were, leaves the filename out of the comparison_networks map.
C25_UnloadedStaysOut ==
    [][(call.fn = "unload" /\ call'.fn = "script_run")
          => call.filename \notin DOMAIN networks']_vars

(***************************************************************************)
(* The subset specification: networks A and B report the same series for   *)
(* generator g1 and any series of SubsetValues for generator g2, at the    *)
(* same two snapshots; process_and_plot_data is asked for the subset (g1). *)
(***************************************************************************)
SubsetValues == {-1, 0, 1}

SubsetSeries == [DOMAIN CacheIndex -> SubsetValues]

SubsetNetwork(g1, g2) ==
    PlotNetwork(GeneratorTable(<<"g1", "g2">>, CarrierOf, MarginalCostOf, PNomOf),
                CacheIndex, [r \in DOMAIN CacheIndex |-> <<g1[r], g2[r]>>])

InitSubset ==
    /\ networks \in {[A |-> SubsetNetwork(g1, a), B |-> SubsetNetwork(g1, b)] :
                        g1 \in SubsetSeries, a \in SubsetSeries, b \in SubsetSeries}
    /\ cache = NoCache
    /\ call = NoCall
    /\ ret = NoCall
    /\ session = NoSession
    /\ files = {}

NextSubset ==
    \/ \E n \in DOMAIN networks, aggregation \in Aggregations, frequency \in Frequencies :
          ProcessAndPlot(n, "Generator", "p", <<"g1">>, aggregation, frequency)
    \/ Restart

SpecSubset == InitSubset /\ [][NextSubset]_vars

\* The loaded network that the call is not about.
OtherNetwork == IF call.net = "A" THEN "B" ELSE "A"

\* Both networks report the same series for every component of the call's subset.
AgreeOnSubset ==
    LET a == RawMatrix("A")
        b == RawMatrix("B")
    IN  /\ a.index = b.index
        /\ \A g \in Range(call.subset) :
              /\ g \in Range(a.columns) /\ g \in Range(b.columns)
              /\ Column(a, g) = Column(b, g)

\* C24: what process_and_plot_data returns for a subset of components (table and
\* error outcome) is what it returns, for the same request, for a network that
\* reports the same series for the components of the subset.
C24_SubsetDependsOnSubsetOnly ==
    (IsPlot /\ Len(call.subset) > 0 /\ AgreeOnSubset)
        => ret = process_and_plot_data(networks[OtherNetwork], call.component_type,
                                       call.variable, call.subset, call.aggregation,
                                       call.frequency)

====
